---- MODULE Spec2Model ----
(***************************************************************************)
(* Bill splitter of apikdech/toolbox (BillSplitter component).             *)
(*                                                                         *)
(* The component state is people / discountSettings / additionalFees.     *)
(* calculateBillSummary computes the total discount, lets                  *)
(* calculateDiscountedAmounts distribute it in rounds of equal shares     *)
(* (a participant never receives more than their own subtotal, the part   *)
(* they cannot absorb goes to the next round) and builds one summary per  *)
(* participant.                                                            *)
(*                                                                         *)
(* JavaScript numbers are modelled as exact rationals [n, d] in lowest    *)
(* terms (d > 0), with Infinity as 1/0; floating-point rounding is not    *)
(* modelled.                                                               *)
(***************************************************************************)
EXTENDS Integers, Sequences, FiniteSets, TLC

\* ------------------------------------------------------------------------
\* Bounds of the model
\* ------------------------------------------------------------------------
MaxPeople == 3
\* number of edits made through the form
MaxEdits == 5
MaxLoadedEdits == 2
\* length of the texts typed into the base64 converter
MaxTextLen == 4

\* ------------------------------------------------------------------------
\* Numbers: exact rationals, Infinity = 1/0
\* ------------------------------------------------------------------------
Abs(x) == IF x < 0 THEN -x ELSE x

RECURSIVE GCD(_, _)
GCD(a, b) == IF b = 0 THEN a ELSE GCD(b, a % b)

\* n/d in lowest terms, for d >= 0 (d = 0 only for Infinity)
Rat(n, d) ==
    LET g == GCD(Abs(n), d)
    IN  IF g = 0 THEN [n |-> 0, d |-> 1] ELSE [n |-> n \div g, d |-> d \div g]

FromInt(k) == [n |-> k, d |-> 1]
Zero == FromInt(0)
Infinity == [n |-> 1, d |-> 0]

RAdd(a, b) == Rat(a.n * b.d + b.n * a.d, a.d * b.d)
RSub(a, b) == Rat(a.n * b.d - b.n * a.d, a.d * b.d)
RMul(a, b) == Rat(a.n * b.n, a.d * b.d)
\* a / b for b > 0
RDiv(a, b) == Rat(a.n * b.d, a.d * b.n)
RLe(a, b) == a.n * b.d <= b.n * a.d
RLt(a, b) == a.n * b.d < b.n * a.d
MathMin(a, b) == IF RLe(a, b) THEN a ELSE b
MathMax(a, b) == IF RLe(a, b) THEN b ELSE a

\* ------------------------------------------------------------------------
\* Input domains
\* ------------------------------------------------------------------------
\* texts (names) are sequences of UTF-16 code units
Item(id, q, p) == [id |-> id, name |-> << >>, quantity |-> q, price |-> p]

\* item lists a participant may own, as <<quantity, price>> pairs: none, the
\* fresh item of addItem (quantity 1, price 0), and lists with subtotal 1, 3
\* and 10
ItemLists ==
    { <<>>,
      << <<1, 0>> >>,
      << <<1, 1>> >>,
      << <<1, 1>>, <<2, 1>> >>,
      << <<2, 5>> >> }

DiscountTypes == {"percentage", "flat"}
DiscountValues == {0, 6, 8, 200}
MinimumSpends == {0, 5}
MaxDiscountAmounts == {Infinity, FromInt(0), FromInt(2)}
\* fee lists (amounts): no fee, one fee, two fees
FeeLists == { <<>>, <<3>>, <<1, 3>> }

PeopleLists ==
    UNION { [1..k -> ItemLists] : k \in 0..MaxPeople }

VARIABLES
    people,              \* useState<Person[]>
    discountSettings,    \* useState<DiscountSettings>
    additionalFees,      \* useState<AdditionalFee[]>
    pc,                  \* "ready" | "loop" | "done": position in calculateBillSummary
    sharedFeesPerPerson, \* local of calculateBillSummary
    totalDiscount,       \* local of calculateBillSummary
    discountedAmounts,   \* local of calculateDiscountedAmounts: id -> amount
    remainingDiscount,   \* local of calculateDiscountedAmounts
    eligiblePeople,      \* local of calculateDiscountedAmounts
    rounds,              \* number of completed iterations of the while loop
    summary,             \* the returned BillSummary[]
    grandTotal,          \* the aggregate returned by calculateGrandTotal
    previous,            \* <<inputs and summary of the evaluation before this one>>
    nextId,              \* the next value of crypto.randomUUID()
    edits,               \* number of edits made through the form
    lastEdit,            \* the last call of an editing handler
    rawText,             \* Base64Converter useState: Raw Text field
    base64Text,          \* Base64Converter useState: Base64 field
    lastEvent,           \* the last change event handled by the converter
    token,               \* the shareable token (compressState result, expandState input)
    expanded,            \* the state returned by expandState
    codecPc,             \* position in a compressState / expandState evaluation
    initialState,        \* BillSplitter prop: a token, or empty for none
    urlState,            \* the "state" query parameter of window.location
    isInitialMount,      \* useRef(true)
    effectPc             \* the effects still to run after a render

state == <<people, discountSettings, additionalFees>>
locals == <<sharedFeesPerPerson, totalDiscount, discountedAmounts,
            remainingDiscount, eligiblePeople, rounds, summary>>
renderVars == <<grandTotal, previous>>
\* what the three steps of calculateBillSummary never touch
uiVars == <<nextId, edits, lastEdit>>
converterVars == <<rawText, base64Text, lastEvent>>
codecVars == <<token, expanded, codecPc>>
pageVars == <<initialState, urlState, isInitialMount, effectPc>>
outsideCalc == <<renderVars, uiVars, converterVars, codecVars, pageVars>>
vars == <<people, discountSettings, additionalFees, pc, sharedFeesPerPerson,
          totalDiscount, discountedAmounts, remainingDiscount, eligiblePeople,
          rounds, summary, outsideCalc>>

\* ------------------------------------------------------------------------
\* Pure helpers of the calculation
\* ------------------------------------------------------------------------
RECURSIVE SumPrices(_, _)
SumPrices(items, k) ==
    IF k = 0 THEN Zero ELSE RAdd(SumPrices(items, k - 1), FromInt(items[k].price))

\* person.items.reduce((sum, item) => sum + item.price * item.quantity, 0)
RECURSIVE itemsReduce(_, _)
itemsReduce(items, k) ==
    IF k = 0 THEN Zero
    ELSE RAdd(itemsReduce(items, k - 1),
              RMul(FromInt(items[k].price), FromInt(items[k].quantity)))

\* mutant: the quantity is left out of the line value
subtotalOf_PriceOnly(person) ==
    SumPrices(person.items, Len(person.items))

subtotalOf(person) == itemsReduce(person.items, Len(person.items))

\* people.reduce((sum, person) => sum + subtotal(person), 0)
RECURSIVE peopleReduce(_, _)
peopleReduce(ps, k) ==
    IF k = 0 THEN Zero
    ELSE RAdd(peopleReduce(ps, k - 1), subtotalOf(ps[k]))

\* additionalFees.reduce((sum, fee) => sum + fee.amount, 0)
RECURSIVE feesReduce(_, _)
feesReduce(fees, k) ==
    IF k = 0 THEN Zero
    ELSE RAdd(feesReduce(fees, k - 1), FromInt(fees[k].amount))

\* mutant: the map is read with a key it was never written with
amountOf_WrongKey(amounts, id) == Zero

\* discountedAmounts[person.id] || 0
amountOf(amounts, id) == IF id \in DOMAIN amounts THEN amounts[id] ELSE Zero

\* mutant: the divisor is people.length without the "|| 1" guard
sharedFeesOf_NoGuard(ps, fees) ==
    RDiv(feesReduce(fees, Len(fees)), FromInt(Len(ps)))

\* mutant: the fees are not split among the participants
sharedFeesOf_Undivided(ps, fees) == feesReduce(fees, Len(fees))

\* totalAdditionalFees / (people.length || 1)
sharedFeesOf(ps, fees) ==
    RDiv(feesReduce(fees, Len(fees)),
         FromInt(IF Len(ps) = 0 THEN 1 ELSE Len(ps)))

\* mutant: the percentage discount ignores maxDiscountAmount
totalDiscountOf_PercentageUncapped(ps, ds) ==
    IF ds.type = "percentage"
    THEN RMul(peopleReduce(ps, Len(ps)), RDiv(FromInt(ds.value), FromInt(100)))
    ELSE MathMin(FromInt(ds.value), ds.maxDiscountAmount)

\* mutant: the flat discount is also limited by the sum of the subtotals
totalDiscountOf_FlatLimitedBySubtotals(ps, ds) ==
    IF ds.type = "percentage"
    THEN MathMin(RMul(peopleReduce(ps, Len(ps)),
                      RDiv(FromInt(ds.value), FromInt(100))),
                 ds.maxDiscountAmount)
    ELSE MathMin(MathMin(FromInt(ds.value), peopleReduce(ps, Len(ps))),
                 ds.maxDiscountAmount)

totalDiscountOf(ps, ds) ==
    IF ds.type = "percentage"
    THEN MathMin(RMul(peopleReduce(ps, Len(ps)),
                      RDiv(FromInt(ds.value), FromInt(100))),
                 ds.maxDiscountAmount)
    ELSE MathMin(FromInt(ds.value), ds.maxDiscountAmount)

\* mutant: minimumSpend is enforced as an eligibility gate
initialEligible_MinimumSpend(ps) ==
    SelectSeq(ps, LAMBDA person :
                      /\ RLt(Zero, subtotalOf(person))
                      /\ RLe(FromInt(discountSettings.minimumSpend), subtotalOf(person)))

\* people.filter(person => subtotal(person) > 0)
initialEligible(ps) == SelectSeq(ps, LAMBDA person : RLt(Zero, subtotalOf(person)))

\* mutant: the remaining discount is divided by the number of all participants
discountPerPersonOf_AllPeople(remaining, eligible) ==
    RDiv(remaining, FromInt(Len(people)))

discountPerPersonOf(remaining, eligible) == RDiv(remaining, FromInt(Len(eligible)))

\* mutant: the share is applied without the cap of the remaining subtotal
appliedDiscountOf_Uncapped(discountPerPerson, remainingSubtotal) == discountPerPerson

appliedDiscountOf(discountPerPerson, remainingSubtotal) ==
    MathMin(discountPerPerson, remainingSubtotal)

\* mutant: the part a capped participant cannot absorb is not carried over
unusedOf_Dropped(discountPerPerson, appliedDiscount) == Zero

\* discountPerPerson - appliedDiscount, the part added to unusedDiscount
unusedOf(discountPerPerson, appliedDiscount) ==
    RSub(discountPerPerson, appliedDiscount)

\* eligiblePeople.forEach(...): the first k eligible participants processed,
\* result [amounts, unused]
RECURSIVE forEachEligible(_, _, _, _)
forEachEligible(eligible, k, amounts, discountPerPerson) ==
    IF k = 0 THEN [amounts |-> amounts, unused |-> Zero]
    ELSE LET prev == forEachEligible(eligible, k - 1, amounts, discountPerPerson)
             person == eligible[k]
             subtotal == subtotalOf(person)
             currentDiscount == amountOf(prev.amounts, person.id)
             remainingSubtotal == RSub(subtotal, currentDiscount)
             appliedDiscount == appliedDiscountOf(discountPerPerson, remainingSubtotal)
         IN  IF RLt(Zero, remainingSubtotal)
             THEN [amounts |->
                     [id \in DOMAIN prev.amounts \cup {person.id} |->
                        IF id = person.id
                        THEN RAdd(currentDiscount, appliedDiscount)
                        ELSE prev.amounts[id]],
                   unused |->
                     RAdd(prev.unused, unusedOf(discountPerPerson, appliedDiscount))]
             ELSE prev

\* mutant: the filter keeps participants whose capacity is exhausted (>= 0)
stillEligible_KeepsCapped(eligible, amounts) ==
    SelectSeq(eligible,
              LAMBDA person :
                  RLe(Zero, RSub(subtotalOf(person), amountOf(amounts, person.id))))

\* eligiblePeople.filter(person => subtotal - currentDiscount > 0)
stillEligible(eligible, amounts) ==
    SelectSeq(eligible,
              LAMBDA person :
                  RLt(Zero, RSub(subtotalOf(person), amountOf(amounts, person.id))))

discountedSubtotalOf(subtotal, appliedDiscount) ==
    MathMax(Zero, RSub(subtotal, appliedDiscount))

\* mutant: total is built from the undiscounted subtotal
billSummaryOf_TotalFromSubtotal(person, amounts, sharedFees) ==
    LET subtotal == subtotalOf(person)
        appliedDiscount == amountOf(amounts, person.id)
        discountedSubtotal == discountedSubtotalOf(subtotal, appliedDiscount)
    IN  [personId |-> person.id,
         subtotal |-> subtotal,
         discountedSubtotal |-> discountedSubtotal,
         sharedFees |-> sharedFees,
         total |-> RAdd(subtotal, sharedFees)]

billSummaryOf(person, amounts, sharedFees) ==
    LET subtotal == subtotalOf(person)
        appliedDiscount == amountOf(amounts, person.id)
        discountedSubtotal == discountedSubtotalOf(subtotal, appliedDiscount)
    IN  [personId |-> person.id,
         subtotal |-> subtotal,
         discountedSubtotal |-> discountedSubtotal,
         sharedFees |-> sharedFees,
         total |-> RAdd(discountedSubtotal, sharedFees)]

\* reduce of calculateGrandTotal over the first k summaries
RECURSIVE summaryReduce(_, _, _)
summaryReduce(f, sm, k) ==
    IF k = 0 THEN Zero ELSE RAdd(summaryReduce(f, sm, k - 1), f[k])

\* mutant: the aggregate reports the configured discount, not the applied one
grandTotalOf_ConfiguredDiscount(sm) ==
    LET n == Len(sm)
    IN  [subtotal |-> summaryReduce([k \in 1..n |-> sm[k].subtotal], sm, n),
         totalDiscount |-> totalDiscount,
         totalAfterDiscount |->
             summaryReduce([k \in 1..n |-> sm[k].discountedSubtotal], sm, n),
         totalSharedFees |-> summaryReduce([k \in 1..n |-> sm[k].sharedFees], sm, n),
         grandTotal |-> summaryReduce([k \in 1..n |-> sm[k].total], sm, n)]

grandTotalOf(sm) ==
    LET n == Len(sm)
    IN  [subtotal |-> summaryReduce([k \in 1..n |-> sm[k].subtotal], sm, n),
         totalDiscount |->
             summaryReduce([k \in 1..n |->
                               RSub(sm[k].subtotal, sm[k].discountedSubtotal)], sm, n),
         totalAfterDiscount |->
             summaryReduce([k \in 1..n |-> sm[k].discountedSubtotal], sm, n),
         totalSharedFees |-> summaryReduce([k \in 1..n |-> sm[k].sharedFees], sm, n),
         grandTotal |-> summaryReduce([k \in 1..n |-> sm[k].total], sm, n)]

\* ------------------------------------------------------------------------
\* btoa / atob (texts are sequences of UTF-16 code units)
\* ------------------------------------------------------------------------
Failure == [ok |-> FALSE, value |-> << >>]
Success(value) == [ok |-> TRUE, value |-> value]

\* F applied to the value of an expression, the value computed once
applyTo(value, F(_)) == CHOOSE result \in { F(x) : x \in {value} } : TRUE

\* ASCII whitespace: tab, line feed, form feed, carriage return, space
isWhitespace(c) == c \in {9, 10, 12, 13, 32}
\* A-Z a-z 0-9 + /
isAlphabet(c) == c \in (65..90) \cup (97..122) \cup (48..57) \cup {43, 47}

sextetOf(c) ==
    CASE c \in 65..90 -> c - 65
      [] c \in 97..122 -> c - 71
      [] c \in 48..57 -> c + 4
      [] c = 43 -> 62
      [] c = 47 -> 63

charOf(sextet) ==
    CASE sextet \in 0..25 -> sextet + 65
      [] sextet \in 26..51 -> sextet + 71
      [] sextet \in 52..61 -> sextet - 4
      [] sextet = 62 -> 43
      [] sextet = 63 -> 47

\* the bytes of a sequence of sextets; leftover bits are discarded
decodeSextets(sx) ==
    [j \in 1..((Len(sx) * 6) \div 8) |->
        LET g == (j - 1) \div 3
            r == (j - 1) % 3
        IN  CASE r = 0 -> sx[4 * g + 1] * 4 + sx[4 * g + 2] \div 16
              [] r = 1 -> (sx[4 * g + 2] % 16) * 16 + sx[4 * g + 3] \div 4
              [] r = 2 -> (sx[4 * g + 3] % 4) * 64 + sx[4 * g + 4]]

\* the text with one or two trailing "=" removed when its length is a
\* multiple of 4
removePadding(data) ==
    LET n == Len(data)
    IN  IF n > 0 /\ n % 4 = 0 /\ data[n] = 61
        THEN IF data[n - 1] = 61 THEN SubSeq(data, 1, n - 2) ELSE SubSeq(data, 1, n - 1)
        ELSE data

\* mutant: a text of length 4k + 1 is not rejected
atob_IgnoresLength(text) ==
    applyTo(removePadding(SelectSeq(text, LAMBDA c : ~isWhitespace(c))), LAMBDA data :
        IF \E i \in DOMAIN data : ~isAlphabet(data[i])
        THEN Failure
        ELSE Success(applyTo([i \in DOMAIN data |-> sextetOf(data[i])], decodeSextets)))

\* window.atob: forgiving-base64 decode
atob(text) ==
    applyTo(removePadding(SelectSeq(text, LAMBDA c : ~isWhitespace(c))), LAMBDA data :
        IF Len(data) % 4 = 1 \/ \E i \in DOMAIN data : ~isAlphabet(data[i])
        THEN Failure
        ELSE Success(applyTo([i \in DOMAIN data |-> sextetOf(data[i])], decodeSextets)))

\* the base64 characters of a byte sequence, "=" padded or not
encodeBytes(bytes, padded) ==
    LET n == Len(bytes)
        byte(j) == IF j <= n THEN bytes[j] ELSE 0
        len == IF padded THEN 4 * ((n + 2) \div 3) ELSE (n * 8 + 5) \div 6
    IN  [i \in 1..len |->
            LET g == (i - 1) \div 4
                r == (i - 1) % 4
                b1 == byte(3 * g + 1)
                b2 == byte(3 * g + 2)
                b3 == byte(3 * g + 3)
            IN  CASE r = 0 -> charOf(b1 \div 4)
                  [] r = 1 -> charOf((b1 % 4) * 16 + b2 \div 16)
                  [] r = 2 -> IF 3 * g + 2 > n THEN 61
                              ELSE charOf((b2 % 16) * 4 + b3 \div 64)
                  [] r = 3 -> IF 3 * g + 3 > n THEN 61 ELSE charOf(b3 % 64)]

\* mutant: the output is not padded with "="
btoa_NoPadding(text) ==
    IF \E i \in DOMAIN text : text[i] > 255
    THEN Failure
    ELSE Success(encodeBytes(text, FALSE))

\* window.btoa: throws on a code unit above 0xFF
btoa(text) ==
    IF \E i \in DOMAIN text : text[i] > 255
    THEN Failure
    ELSE Success(encodeBytes(text, TRUE))

\* "Invalid input for base64 encoding"
InvalidInputMessage == <<73, 110, 118, 97, 108, 105, 100, 32, 105, 110, 112, 117, 116, 32, 102, 111, 114, 32, 98, 97, 115, 101, 54, 52, 32, 101, 110, 99, 111, 100, 105, 110, 103>>
\* "Invalid base64 string"
InvalidBase64Message == <<73, 110, 118, 97, 108, 105, 100, 32, 98, 97, 115, 101, 54, 52, 32, 115, 116, 114, 105, 110, 103>>

\* ------------------------------------------------------------------------
\* JavaScript values and JSON
\* ------------------------------------------------------------------------
Undefined == [t |-> "undefined"]
Null == [t |-> "null"]
JSBoolean(b) == [t |-> "boolean", v |-> b]
JSNumber(r) == [t |-> "number", v |-> r]
JSString(s) == [t |-> "string", v |-> s]
JSArray(s) == [t |-> "array", v |-> s]
\* an object is the sequence of its members in insertion order
Member(key, value) == [key |-> key, value |-> value]
JSObject(members) == [t |-> "object", v |-> members]

\* a === b (primitive values)
strictEquals(a, b) == a.t = b.t /\ a = b

\* value.key throws a TypeError on undefined and null
throwsOnGet(value) == value.t \in {"undefined", "null"}

\* value.key (keys of the compact state; no array or string has them)
get(value, key) ==
    IF value.t = "object" /\ \E i \in DOMAIN value.v : value.v[i].key = key
    THEN value.v[CHOOSE i \in DOMAIN value.v : value.v[i].key = key].value
    ELSE Undefined

\* a member is set: an existing key keeps its place and takes the new value
put(members, key, value) ==
    IF \E i \in DOMAIN members : members[i].key = key
    THEN [i \in DOMAIN members |->
            IF members[i].key = key THEN Member(key, value) ELSE members[i]]
    ELSE Append(members, Member(key, value))

RECURSIVE concat(_)
concat(seqs) == IF seqs = << >> THEN << >> ELSE seqs[1] \o concat(Tail(seqs))

\* Array.prototype.join(",")
RECURSIVE join(_)
join(seqs) ==
    IF seqs = << >> THEN << >>
    ELSE IF Len(seqs) = 1 THEN seqs[1]
    ELSE seqs[1] \o <<44>> \o join(Tail(seqs))

RECURSIVE digitsOf(_)
digitsOf(k) == IF k < 10 THEN <<48 + k>> ELSE Append(digitsOf(k \div 10), 48 + (k % 10))

\* the literals "null", "true", "false"
Literal ==
    [null |-> <<110, 117, 108, 108>>,
     true |-> <<116, 114, 117, 101>>,
     false |-> <<102, 97, 108, 115, 101>>]

\* the JSON text of a number: whole numbers in decimal, a non-finite number
\* as null
numberText(r) ==
    IF r.d = 0 THEN Literal.null
    ELSE IF r.n < 0 THEN <<45>> \o digitsOf(0 - r.n)
    ELSE digitsOf(r.n)

hexDigit(k) == IF k < 10 THEN 48 + k ELSE 87 + k

\* JSON.stringify QuoteJSONString: one code unit
escapeOf(c) ==
    CASE c = 34 -> <<92, 34>>
      [] c = 92 -> <<92, 92>>
      [] c = 8 -> <<92, 98>>
      [] c = 9 -> <<92, 116>>
      [] c = 10 -> <<92, 110>>
      [] c = 12 -> <<92, 102>>
      [] c = 13 -> <<92, 114>>
      [] c < 32 /\ c \notin {8, 9, 10, 12, 13} ->
            <<92, 117, 48, 48, hexDigit(c \div 16), hexDigit(c % 16)>>
      [] OTHER -> <<c>>

quote(s) == <<34>> \o concat([i \in DOMAIN s |-> escapeOf(s[i])]) \o <<34>>

\* JSON.stringify(value): no space, members in insertion order, members
\* with an undefined value left out, undefined array elements as null
RECURSIVE JSONstringify(_)
JSONstringify(value) ==
    CASE value.t = "null" -> Literal.null
      [] value.t = "undefined" -> Literal.null
      [] value.t = "boolean" -> IF value.v THEN Literal.true ELSE Literal.false
      [] value.t = "number" -> numberText(value.v)
      [] value.t = "string" -> quote(value.v)
      [] value.t = "array" ->
            <<91>> \o join([i \in DOMAIN value.v |-> JSONstringify(value.v[i])]) \o <<93>>
      [] value.t = "object" ->
            LET members == SelectSeq(value.v, LAMBDA m : m.value.t # "undefined")
            IN  <<123>>
                \o join([i \in DOMAIN members |->
                            quote(members[i].key) \o <<58>> \o JSONstringify(members[i].value)])
                \o <<125>>

\* result of a parsing step: the value and the position after it
ParseError == [ok |-> FALSE, value |-> Undefined, next |-> 0]
Parsed(value, next) == [ok |-> TRUE, value |-> value, next |-> next]

\* JSON whitespace: tab, line feed, carriage return, space
isJSONWhitespace(c) == c \in {9, 10, 13, 32}
isDigit(c) == c \in 48..57
isHexDigit(c) == c \in (48..57) \cup (65..70) \cup (97..102)
hexValue(c) == IF c \in 48..57 THEN c - 48 ELSE IF c \in 65..70 THEN c - 55 ELSE c - 87

RECURSIVE skipWhitespace(_, _)
skipWhitespace(s, i) ==
    IF i <= Len(s) /\ isJSONWhitespace(s[i]) THEN skipWhitespace(s, i + 1) ELSE i

RECURSIVE digitsEnd(_, _)
digitsEnd(s, i) == IF i <= Len(s) /\ isDigit(s[i]) THEN digitsEnd(s, i + 1) ELSE i

\* the value of the decimal digits s[a..b]
RECURSIVE decimal(_, _, _)
decimal(s, a, b) == IF b < a THEN 0 ELSE 10 * decimal(s, a, b - 1) + (s[b] - 48)

RECURSIVE Pow10(_)
Pow10(k) == IF k = 0 THEN 1 ELSE 10 * Pow10(k - 1)

startsWith(s, i, word) ==
    /\ i + Len(word) - 1 <= Len(s)
    /\ SubSeq(s, i, i + Len(word) - 1) = word

\* a JSON string from the character after its opening quote
RECURSIVE scanString(_, _, _)
scanString(s, j, acc) ==
    IF j > Len(s) THEN ParseError
    ELSE IF s[j] = 34 THEN Parsed(JSString(acc), j + 1)
    ELSE IF s[j] < 32 THEN ParseError
    ELSE IF s[j] # 92 THEN scanString(s, j + 1, Append(acc, s[j]))
    ELSE IF j + 1 > Len(s) THEN ParseError
    ELSE LET e == s[j + 1]
         IN  CASE e \in {34, 92, 47} -> scanString(s, j + 2, Append(acc, e))
               [] e = 98 -> scanString(s, j + 2, Append(acc, 8))
               [] e = 102 -> scanString(s, j + 2, Append(acc, 12))
               [] e = 110 -> scanString(s, j + 2, Append(acc, 10))
               [] e = 114 -> scanString(s, j + 2, Append(acc, 13))
               [] e = 116 -> scanString(s, j + 2, Append(acc, 9))
               [] e = 117 ->
                    IF j + 5 <= Len(s) /\ \A k \in 2..5 : isHexDigit(s[j + k])
                    THEN scanString(s, j + 6,
                            Append(acc, 4096 * hexValue(s[j + 2]) + 256 * hexValue(s[j + 3])
                                        + 16 * hexValue(s[j + 4]) + hexValue(s[j + 5])))
                    ELSE ParseError
               [] OTHER -> ParseError

\* a JSON number starting at s[i]
parseNumber(s, i) ==
    LET negative == s[i] = 45
        a == IF negative THEN i + 1 ELSE i
        b == digitsEnd(s, a)
        hasFraction == b <= Len(s) /\ s[b] = 46
        c == IF hasFraction THEN digitsEnd(s, b + 1) ELSE b
        hasExponent == c <= Len(s) /\ s[c] \in {69, 101}
        signed == hasExponent /\ c + 1 <= Len(s) /\ s[c + 1] \in {43, 45}
        e == IF signed THEN c + 2 ELSE c + 1
        d == IF hasExponent THEN digitsEnd(s, e) ELSE c
        fractionDigits == IF hasFraction THEN c - b - 1 ELSE 0
        mantissa == decimal(s, a, b - 1) * Pow10(fractionDigits)
                    + (IF hasFraction THEN decimal(s, b + 1, c - 1) ELSE 0)
        exponent == IF hasExponent THEN decimal(s, e, d - 1) ELSE 0
        magnitude ==
            IF hasExponent /\ signed /\ s[c + 1] = 45
            THEN Rat(mantissa, Pow10(fractionDigits) * Pow10(exponent))
            ELSE Rat(mantissa * Pow10(exponent), Pow10(fractionDigits))
    IN  IF \/ b = a
           \/ b - a > 1 /\ s[a] = 48
           \/ hasFraction /\ c = b + 1
           \/ hasExponent /\ d = e
        THEN ParseError
        ELSE Parsed(JSNumber(IF negative THEN [magnitude EXCEPT !.n = 0 - @] ELSE magnitude), d)

RECURSIVE parseValue(_, _)
RECURSIVE parseElements(_, _, _)
RECURSIVE parseMembers(_, _, _)

\* a JSON value from position i0, whitespace before it skipped
parseValue(s, i0) ==
    LET i == skipWhitespace(s, i0)
    IN  IF i > Len(s) THEN ParseError
        ELSE CASE s[i] = 123 ->
                    LET j == skipWhitespace(s, i + 1)
                    IN  IF j <= Len(s) /\ s[j] = 125
                        THEN Parsed(JSObject(<< >>), j + 1)
                        ELSE parseMembers(s, j, << >>)
               [] s[i] = 91 ->
                    LET j == skipWhitespace(s, i + 1)
                    IN  IF j <= Len(s) /\ s[j] = 93
                        THEN Parsed(JSArray(<< >>), j + 1)
                        ELSE parseElements(s, j, << >>)
               [] s[i] = 34 -> scanString(s, i + 1, << >>)
               [] s[i] = 45 \/ isDigit(s[i]) -> parseNumber(s, i)
               [] startsWith(s, i, Literal.null) -> Parsed(Null, i + 4)
               [] startsWith(s, i, Literal.true) -> Parsed(JSBoolean(TRUE), i + 4)
               [] startsWith(s, i, Literal.false) -> Parsed(JSBoolean(FALSE), i + 5)
               [] OTHER -> ParseError

\* the elements of an array from the start of an element to the closing ]
parseElements(s, i, acc) ==
    applyTo(parseValue(s, i), LAMBDA element :
        LET j == skipWhitespace(s, element.next)
        IN  IF ~element.ok \/ j > Len(s) THEN ParseError
            ELSE IF s[j] = 44 THEN parseElements(s, j + 1, Append(acc, element.value))
            ELSE IF s[j] = 93 THEN Parsed(JSArray(Append(acc, element.value)), j + 1)
            ELSE ParseError)

\* the members of an object from the start of a key to the closing }
parseMembers(s, i, acc) ==
    LET k == skipWhitespace(s, i)
    IN  applyTo(IF k <= Len(s) /\ s[k] = 34 THEN scanString(s, k + 1, << >>) ELSE ParseError,
                LAMBDA key :
        LET colon == skipWhitespace(s, key.next)
        IN  applyTo(IF key.ok /\ colon <= Len(s) /\ s[colon] = 58
                    THEN parseValue(s, colon + 1)
                    ELSE ParseError,
                    LAMBDA member :
            LET j == skipWhitespace(s, member.next)
            IN  IF ~member.ok \/ j > Len(s) THEN ParseError
                ELSE IF s[j] = 44
                THEN parseMembers(s, j + 1, put(acc, key.value.v, member.value))
                ELSE IF s[j] = 125
                THEN Parsed(JSObject(put(acc, key.value.v, member.value)), j + 1)
                ELSE ParseError))

\* JSON.parse(text): throws a SyntaxError unless the text is one JSON value
JSONparse(text) ==
    applyTo(parseValue(text, 1), LAMBDA parsed :
        IF parsed.ok /\ skipWhitespace(text, parsed.next) > Len(text)
        THEN Success(parsed.value)
        ELSE Failure)

\* ------------------------------------------------------------------------
\* compressState / expandState
\* ------------------------------------------------------------------------
\* keys of CompactState: "p", "d", "f", "n", "i", "q", "t", "v", "m", "x", "a"
Key ==
    [p |-> <<112>>, d |-> <<100>>, f |-> <<102>>, n |-> <<110>>, i |-> <<105>>,
     q |-> <<113>>, t |-> <<116>>, v |-> <<118>>, m |-> <<109>>, x |-> <<120>>,
     a |-> <<97>>]

\* "percentage" | "flat"
typeText(type) ==
    IF type = "percentage"
    THEN <<112, 101, 114, 99, 101, 110, 116, 97, 103, 101>>
    ELSE <<102, 108, 97, 116>>

compactStateOf(ps, ds, fees) ==
    JSObject(<<
        Member(Key.p, JSArray([i \in DOMAIN ps |->
            JSObject(<<
                Member(Key.n, JSString(ps[i].name)),
                Member(Key.i, JSArray([k \in DOMAIN ps[i].items |->
                    JSObject(<<
                        Member(Key.n, JSString(ps[i].items[k].name)),
                        Member(Key.q, JSNumber(FromInt(ps[i].items[k].quantity))),
                        Member(Key.p, JSNumber(FromInt(ps[i].items[k].price)))>>)]))>>)])),
        Member(Key.d, JSObject(<<
            Member(Key.t, JSString(typeText(ds.type))),
            Member(Key.v, JSNumber(FromInt(ds.value))),
            Member(Key.m, JSNumber(FromInt(ds.minimumSpend))),
            Member(Key.x, IF ds.maxDiscountAmount = Infinity
                         THEN JSNumber(FromInt(-1))
                         ELSE JSNumber(ds.maxDiscountAmount))>>)),
        Member(Key.f, JSArray([j \in DOMAIN fees |->
            JSObject(<<
                Member(Key.n, JSString(fees[j].name)),
                Member(Key.a, JSNumber(FromInt(fees[j].amount)))>>)]))>>)

\* btoa(JSON.stringify(compactState)); not ok when btoa throws
compressStateOf(ps, ds, fees) ==
    applyTo(applyTo(compactStateOf(ps, ds, fees), JSONstringify), btoa)

\* the state of the catch branch; the values of an expanded state are
\* JavaScript values
DefaultExpanded ==
    [people |-> << >>,
     discountSettings |->
         [type |-> JSString(typeText("percentage")), value |-> JSNumber(Zero),
          minimumSpend |-> JSNumber(Zero), maxDiscountAmount |-> JSNumber(Infinity)],
     additionalFees |-> << >>]

\* number of crypto.randomUUID() calls made for the people before person i
RECURSIVE idsBefore(_, _)
idsBefore(p, i) ==
    IF i = 1 THEN 0 ELSE idsBefore(p, i - 1) + 1 + Len(get(p[i - 1], Key.i).v)

\* the try block throws: JSON.parse(atob(compressed)) throws, a property of
\* undefined or null is read, or .map is called on something that is no array
expandThrows(decoded, parsed) ==
    \/ ~decoded.ok
    \/ ~parsed.ok
    \/ LET compactState == parsed.value
           p == get(compactState, Key.p)
           d == get(compactState, Key.d)
           f == get(compactState, Key.f)
       IN  \/ throwsOnGet(compactState)
           \/ p.t # "array"
           \/ \E i \in DOMAIN p.v :
                 \/ throwsOnGet(p.v[i])
                 \/ get(p.v[i], Key.i).t # "array"
                 \/ \E k \in DOMAIN get(p.v[i], Key.i).v : throwsOnGet(get(p.v[i], Key.i).v[k])
           \/ throwsOnGet(d)
           \/ f.t # "array"
           \/ \E j \in DOMAIN f.v : throwsOnGet(f.v[j])

\* the object the try block returns, its ids taken from firstId on
expandedOf(compactState, firstId) ==
    LET p == get(compactState, Key.p).v
        d == get(compactState, Key.d)
        f == get(compactState, Key.f).v
        feeIdsFrom == firstId + idsBefore(p, Len(p) + 1)
    IN  [people |-> [i \in DOMAIN p |->
            [id |-> firstId + idsBefore(p, i),
             name |-> get(p[i], Key.n),
             items |-> [k \in DOMAIN get(p[i], Key.i).v |->
                 [id |-> firstId + idsBefore(p, i) + k,
                  name |-> get(get(p[i], Key.i).v[k], Key.n),
                  quantity |-> get(get(p[i], Key.i).v[k], Key.q),
                  price |-> get(get(p[i], Key.i).v[k], Key.p)]]]],
         discountSettings |->
            [type |-> get(d, Key.t),
             value |-> get(d, Key.v),
             minimumSpend |-> get(d, Key.m),
             maxDiscountAmount |->
                 IF strictEquals(get(d, Key.x), JSNumber(FromInt(-1)))
                 THEN JSNumber(Infinity)
                 ELSE get(d, Key.x)],
         additionalFees |-> [j \in DOMAIN f |->
            [id |-> feeIdsFrom + j - 1,
             name |-> get(f[j], Key.n),
             amount |-> get(f[j], Key.a)]]]

\* expandState(compressed)
expandStateOf(compressed, firstId) ==
    applyTo(atob(compressed), LAMBDA decoded :
        applyTo(IF decoded.ok THEN JSONparse(decoded.value) ELSE Failure, LAMBDA parsed :
            IF expandThrows(decoded, parsed)
            THEN DefaultExpanded
            ELSE expandedOf(parsed.value, firstId)))

\* number of ids in an expanded state
idsIn(result) ==
    LET items == [i \in DOMAIN result.people |-> result.people[i].items]
    IN  Len(result.people) + Len(concat(items)) + Len(result.additionalFees)

\* ------------------------------------------------------------------------
\* Editing operations of the form
\* ------------------------------------------------------------------------
Digits == {"0", "1", "2", "3", "4", "5", "6", "7", "8", "9"}
digitValue(c) ==
    CASE c = "0" -> 0 [] c = "1" -> 1 [] c = "2" -> 2 [] c = "3" -> 3 [] c = "4" -> 4
      [] c = "5" -> 5 [] c = "6" -> 6 [] c = "7" -> 7 [] c = "8" -> 8 [] c = "9" -> 9

\* e.target.value.replace(/[^0-9]/g, "")
stripNonDigits(text) == SelectSeq(text, LAMBDA c : c \in Digits)

\* parseInt(value, 10) of the first k characters of a non-empty digit string
RECURSIVE parseInt(_, _)
parseInt(digits, k) ==
    IF k = 0 THEN 0 ELSE 10 * parseInt(digits, k - 1) + digitValue(digits[k])

\* a digit string with this many digits after its leading zeros denotes a
\* number above Number.MAX_VALUE (1.79e308), which parseInt gives as Infinity
OverflowDigits == 310

leadingZeros(value) ==
    CHOOSE k \in 0..Len(value) :
        /\ \A i \in 1..k : value[i] = "0"
        /\ k = Len(value) \/ value[k + 1] # "0"

parseIntOverflows(value) == Len(value) - leadingZeros(value) >= OverflowDigits

\* mutant: a leading minus sign of the typed text survives
handleNumberInput_KeepsSign(text) ==
    LET value == stripNonDigits(text)
        n == IF value = << >> THEN 0 ELSE parseInt(value, Len(value))
    IN  IF text # << >> /\ text[1] = "-" THEN 0 - n ELSE n

\* the number handleNumberInput hands to its callback
handleNumberInput(text) ==
    LET value == stripNonDigits(text)
    IN  IF value = << >> THEN 0 ELSE parseInt(value, Len(value))

\* the same number as a JavaScript number, Infinity past the largest double
numberInput(text) ==
    IF parseIntOverflows(stripNonDigits(text))
    THEN Infinity
    ELSE FromInt(handleNumberInput(text))

\* { ...object, ...updates }
spread(object, updates) ==
    [f \in DOMAIN object \cup DOMAIN updates |->
        IF f \in DOMAIN updates THEN updates[f] ELSE object[f]]

mapSeq(seq, F(_)) == [i \in DOMAIN seq |-> F(seq[i])]

addPersonOf(ps, id) == Append(ps, [id |-> id, name |-> << >>, items |-> << >>])

updatePersonOf(ps, personId, name) ==
    mapSeq(ps, LAMBDA person :
                   IF person.id = personId THEN [person EXCEPT !.name = name] ELSE person)

addItemOf(ps, personId, id) ==
    mapSeq(ps, LAMBDA person :
                   IF person.id = personId
                   THEN [person EXCEPT !.items = Append(person.items, Item(id, 1, 0))]
                   ELSE person)

\* mutant: the updated item keeps only its id beside the supplied fields
updateItemOf_Replaces(ps, personId, itemId, updates) ==
    mapSeq(ps, LAMBDA person :
                   IF person.id = personId
                   THEN [person EXCEPT !.items =
                            mapSeq(person.items,
                                   LAMBDA item : IF item.id = itemId
                                                 THEN spread(Item(item.id, 1, 0), updates)
                                                 ELSE item)]
                   ELSE person)

updateItemOf(ps, personId, itemId, updates) ==
    mapSeq(ps, LAMBDA person :
                   IF person.id = personId
                   THEN [person EXCEPT !.items =
                            mapSeq(person.items,
                                   LAMBDA item : IF item.id = itemId
                                                 THEN spread(item, updates) ELSE item)]
                   ELSE person)

removeItemOf(ps, personId, itemId) ==
    mapSeq(ps, LAMBDA person :
                   IF person.id = personId
                   THEN [person EXCEPT !.items =
                            SelectSeq(person.items, LAMBDA item : item.id # itemId)]
                   ELSE person)

removePersonOf(ps, personId) == SelectSeq(ps, LAMBDA person : person.id # personId)

addAdditionalFeeOf(fees, id) == Append(fees, [id |-> id, name |-> << >>, amount |-> 0])

updateAdditionalFeeOf(fees, feeId, updates) ==
    mapSeq(fees, LAMBDA fee : IF fee.id = feeId THEN spread(fee, updates) ELSE fee)

removeAdditionalFeeOf(fees, feeId) == SelectSeq(fees, LAMBDA fee : fee.id # feeId)

\* mutant: the map of the evaluation before is reused
newDiscountedAmounts_Reused(old) == old

\* let discountedAmounts = {}
newDiscountedAmounts(old) == << >>

\* ------------------------------------------------------------------------
\* Initial states: the inputs of one calculateBillSummary call
\* ------------------------------------------------------------------------
InitLocals ==
    /\ pc = "ready"
    /\ sharedFeesPerPerson = Zero
    /\ totalDiscount = Zero
    /\ discountedAmounts = << >>
    /\ remainingDiscount = Zero
    /\ eligiblePeople = << >>
    /\ rounds = 0
    /\ summary = << >>

InitRenderVars ==
    /\ grandTotal = grandTotalOf(<< >>)
    /\ previous = << >>

InitUIVars ==
    /\ nextId = 1
    /\ edits = 0
    /\ lastEdit = [op |-> "none", personId |-> 0, itemId |-> 0, feeId |-> 0, updates |-> << >>]

\* no "state" parameter in the URL
NoParam == [has |-> FALSE, value |-> << >>]
Param(value) == [has |-> TRUE, value |-> value]

\* the component after a mount without initialState
InitPageVars ==
    /\ initialState = << >>
    /\ urlState = NoParam
    /\ isInitialMount = FALSE
    /\ effectPc = "idle"

InitCodecVars ==
    /\ token = << >>
    /\ expanded = DefaultExpanded
    /\ codecPc = "idle"

InitConverterVars ==
    /\ rawText = << >>
    /\ base64Text = << >>
    /\ lastEvent = [handler |-> "none", text |-> << >>, ok |-> TRUE]

Init ==
    /\ \E pl \in PeopleLists :
          people = [i \in DOMAIN pl |->
                       [id |-> i, name |-> << >>,
                        items |-> [k \in DOMAIN pl[i] |->
                                      Item(<<i, k>>, pl[i][k][1], pl[i][k][2])]]]
    /\ \E t \in DiscountTypes, v \in DiscountValues,
          m \in MinimumSpends, x \in MaxDiscountAmounts :
          discountSettings =
              [type |-> t, value |-> v, minimumSpend |-> m, maxDiscountAmount |-> x]
    /\ \E fl \in FeeLists :
          additionalFees = [i \in DOMAIN fl |-> [id |-> i, name |-> << >>, amount |-> fl[i]]]
    /\ InitLocals
    /\ InitRenderVars
    /\ InitUIVars
    /\ InitConverterVars
    /\ InitCodecVars
    /\ InitPageVars

\* ------------------------------------------------------------------------
\* Actions
\* ------------------------------------------------------------------------
\* calculateBillSummary up to the call of calculateDiscountedAmounts, and the
\* initialisation of that function
calculateBillSummary ==
    /\ pc = "ready"
    /\ sharedFeesPerPerson' = sharedFeesOf(people, additionalFees)
    /\ totalDiscount' = totalDiscountOf(people, discountSettings)
    /\ discountedAmounts' = newDiscountedAmounts(discountedAmounts)
    /\ remainingDiscount' = totalDiscountOf(people, discountSettings)
    /\ eligiblePeople' = initialEligible(people)
    /\ rounds' = 0
    /\ pc' = "loop"
    /\ UNCHANGED <<state, summary, outsideCalc>>

\* one iteration of the while loop of calculateDiscountedAmounts
allocationRound ==
    /\ pc = "loop"
    /\ RLt(Zero, remainingDiscount)
    /\ Len(eligiblePeople) > 0
    /\ LET discountPerPerson == discountPerPersonOf(remainingDiscount, eligiblePeople)
           r == forEachEligible(eligiblePeople, Len(eligiblePeople),
                                discountedAmounts, discountPerPerson)
       IN  /\ discountedAmounts' = r.amounts
           /\ remainingDiscount' = r.unused
           /\ eligiblePeople' = stillEligible(eligiblePeople, r.amounts)
    /\ rounds' = rounds + 1
    /\ UNCHANGED <<state, pc, sharedFeesPerPerson, totalDiscount, summary, outsideCalc>>

\* loop exit, return of calculateDiscountedAmounts, and the people.map that
\* builds the summaries
returnSummary ==
    /\ pc = "loop"
    /\ ~(RLt(Zero, remainingDiscount) /\ Len(eligiblePeople) > 0)
    /\ summary' = [i \in DOMAIN people |->
                      billSummaryOf(people[i], discountedAmounts, sharedFeesPerPerson)]
    /\ pc' = "done"
    /\ UNCHANGED <<state, sharedFeesPerPerson, totalDiscount, discountedAmounts,
                   remainingDiscount, eligiblePeople, rounds, outsideCalc>>

Next ==
    \/ calculateBillSummary
    \/ allocationRound
    \/ returnSummary

Spec == Init /\ [][Next]_vars

\* ------------------------------------------------------------------------
\* Renders of the component: every render evaluates calculateGrandTotal
\* (which calls calculateBillSummary); a change of minimumSpend or a plain
\* re-render evaluates it again on the state then current.
\* ------------------------------------------------------------------------
RenderDiscountValues == {8, 200}
RenderMaxDiscountAmounts == {Infinity, FromInt(2)}
RenderFeeLists == { <<>>, <<1, 3>> }

InitRender ==
    /\ \E pl \in PeopleLists :
          people = [i \in DOMAIN pl |->
                       [id |-> i, name |-> << >>,
                        items |-> [k \in DOMAIN pl[i] |->
                                      Item(<<i, k>>, pl[i][k][1], pl[i][k][2])]]]
    /\ \E t \in DiscountTypes, v \in RenderDiscountValues,
          x \in RenderMaxDiscountAmounts :
          discountSettings =
              [type |-> t, value |-> v, minimumSpend |-> 0, maxDiscountAmount |-> x]
    /\ \E fl \in RenderFeeLists :
          additionalFees = [i \in DOMAIN fl |-> [id |-> i, name |-> << >>, amount |-> fl[i]]]
    /\ InitLocals
    /\ InitRenderVars
    /\ InitUIVars
    /\ InitConverterVars
    /\ InitCodecVars
    /\ InitPageVars

\* the reduces of calculateGrandTotal over the summary its call of
\* calculateBillSummary returned
calculateGrandTotal ==
    /\ pc = "done"
    /\ grandTotal' = grandTotalOf(summary)
    /\ pc' = "total"
    /\ UNCHANGED <<state, locals, previous, uiVars, converterVars, codecVars, pageVars>>

\* what the evaluation just finished was given and what it returned
evaluated ==
    [people |-> people,
     discountSettings |-> discountSettings,
     additionalFees |-> additionalFees,
     summary |-> summary]

\* the Minimum Spend input: setDiscountSettings({...discountSettings,
\* minimumSpend: value}); the state change makes the component render again
setMinimumSpend ==
    /\ pc = "total"
    /\ previous = << >>
    /\ \E value \in MinimumSpends :
          /\ value # discountSettings.minimumSpend
          /\ discountSettings' = [discountSettings EXCEPT !.minimumSpend = value]
    /\ previous' = << evaluated >>
    /\ pc' = "ready"
    /\ UNCHANGED <<people, additionalFees, locals, grandTotal, uiVars, converterVars, codecVars, pageVars>>

\* a render without a state change: the component function runs again
render ==
    /\ pc = "total"
    /\ previous = << >>
    /\ previous' = << evaluated >>
    /\ pc' = "ready"
    /\ UNCHANGED <<state, locals, grandTotal, uiVars, converterVars, codecVars, pageVars>>

NextRender ==
    \/ calculateBillSummary
    \/ allocationRound
    \/ returnSummary
    \/ calculateGrandTotal
    \/ setMinimumSpend
    \/ render

SpecRender == InitRender /\ [][NextRender]_vars

\* ------------------------------------------------------------------------
\* The form: the component starts on its default state and the user edits it
\* ------------------------------------------------------------------------
\* texts typed into the inputs
Names == { << >>, <<65>>, <<8364>> }
InputTexts == { << >>, <<"-", "1", "a", ".", "5">>, <<"x">> }

personIds == {people[i].id : i \in DOMAIN people}
itemIdsOf(personId) ==
    UNION {{people[i].items[k].id : k \in DOMAIN people[i].items} :
              i \in {j \in DOMAIN people : people[j].id = personId}}
feeIds == {additionalFees[i].id : i \in DOMAIN additionalFees}

calcVars == <<pc, locals, renderVars>>

InitUI ==
    /\ people = << >>
    /\ discountSettings =
          [type |-> "percentage", value |-> 0, minimumSpend |-> 0,
           maxDiscountAmount |-> Infinity]
    /\ additionalFees = << >>
    /\ InitLocals
    /\ InitRenderVars
    /\ InitUIVars
    /\ InitConverterVars
    /\ InitCodecVars
    /\ InitPageVars

\* a call of an editing handler: its name and arguments (0: no such argument)
call(op, personId, itemId, feeId, updates) ==
    [op |-> op, personId |-> personId, itemId |-> itemId, feeId |-> feeId,
     updates |-> updates]

\* a handler's state update is followed by a render that schedules the URL
\* effect
edit(handler) ==
    /\ effectPc = "idle"
    /\ edits < MaxEdits
    /\ initialState # << >> => edits < MaxLoadedEdits
    /\ edits' = edits + 1
    /\ lastEdit' = handler
    /\ effectPc' = "url"
    /\ UNCHANGED <<calcVars, converterVars, codecVars, initialState, urlState, isInitialMount>>

addPerson ==
    /\ edit(call("addPerson", 0, 0, 0, << >>))
    /\ people' = addPersonOf(people, nextId)
    /\ nextId' = nextId + 1
    /\ UNCHANGED <<discountSettings, additionalFees>>

updatePerson ==
    /\ \E personId \in personIds, name \in Names :
          /\ edit(call("updatePerson", personId, 0, 0, [name |-> name]))
          /\ people' = updatePersonOf(people, personId, name)
    /\ UNCHANGED <<discountSettings, additionalFees, nextId>>

addItem ==
    /\ \E personId \in personIds :
          /\ edit(call("addItem", personId, 0, 0, << >>))
          /\ people' = addItemOf(people, personId, nextId)
    /\ nextId' = nextId + 1
    /\ UNCHANGED <<discountSettings, additionalFees>>

\* Item name input
updateItemName ==
    /\ \E personId \in personIds :
          \E itemId \in itemIdsOf(personId), name \in Names :
              /\ edit(call("updateItem", personId, itemId, 0, [name |-> name]))
              /\ people' = updateItemOf(people, personId, itemId, [name |-> name])
    /\ UNCHANGED <<discountSettings, additionalFees, nextId>>

\* Qty input
updateItemQuantity ==
    /\ \E personId \in personIds :
          \E itemId \in itemIdsOf(personId), text \in InputTexts :
              /\ edit(call("updateItem", personId, itemId, 0,
                           [quantity |-> handleNumberInput(text)]))
              /\ people' = updateItemOf(people, personId, itemId,
                                        [quantity |-> handleNumberInput(text)])
    /\ UNCHANGED <<discountSettings, additionalFees, nextId>>

\* Price input
updateItemPrice ==
    /\ \E personId \in personIds :
          \E itemId \in itemIdsOf(personId), text \in InputTexts :
              /\ edit(call("updateItem", personId, itemId, 0,
                           [price |-> handleNumberInput(text)]))
              /\ people' = updateItemOf(people, personId, itemId,
                                        [price |-> handleNumberInput(text)])
    /\ UNCHANGED <<discountSettings, additionalFees, nextId>>

removeItem ==
    /\ \E personId \in personIds :
          \E itemId \in itemIdsOf(personId) :
              /\ edit(call("removeItem", personId, itemId, 0, << >>))
              /\ people' = removeItemOf(people, personId, itemId)
    /\ UNCHANGED <<discountSettings, additionalFees, nextId>>

removePerson ==
    /\ \E personId \in personIds :
          /\ edit(call("removePerson", personId, 0, 0, << >>))
          /\ people' = removePersonOf(people, personId)
    /\ UNCHANGED <<discountSettings, additionalFees, nextId>>

addAdditionalFee ==
    /\ edit(call("addAdditionalFee", 0, 0, 0, << >>))
    /\ additionalFees' = addAdditionalFeeOf(additionalFees, nextId)
    /\ nextId' = nextId + 1
    /\ UNCHANGED <<people, discountSettings>>

\* Fee name input
updateAdditionalFeeName ==
    /\ \E feeId \in feeIds, name \in Names :
          /\ edit(call("updateAdditionalFee", 0, 0, feeId, [name |-> name]))
          /\ additionalFees' = updateAdditionalFeeOf(additionalFees, feeId, [name |-> name])
    /\ UNCHANGED <<people, discountSettings, nextId>>

\* Fee amount input
updateAdditionalFeeAmount ==
    /\ \E feeId \in feeIds, text \in InputTexts :
          /\ edit(call("updateAdditionalFee", 0, 0, feeId,
                       [amount |-> handleNumberInput(text)]))
          /\ additionalFees' = updateAdditionalFeeOf(additionalFees, feeId,
                                                     [amount |-> handleNumberInput(text)])
    /\ UNCHANGED <<people, discountSettings, nextId>>

removeAdditionalFee ==
    /\ \E feeId \in feeIds :
          /\ edit(call("removeAdditionalFee", 0, 0, feeId, << >>))
          /\ additionalFees' = removeAdditionalFeeOf(additionalFees, feeId)
    /\ UNCHANGED <<people, discountSettings, nextId>>

\* Discount Type select
setDiscountType ==
    /\ \E t \in DiscountTypes :
          /\ edit(call("setDiscountSettings", 0, 0, 0, [type |-> t]))
          /\ discountSettings' = [discountSettings EXCEPT !.type = t]
    /\ UNCHANGED <<people, additionalFees, nextId>>

\* Discount Value input
setDiscountValue ==
    /\ \E text \in InputTexts :
          /\ edit(call("setDiscountSettings", 0, 0, 0, [value |-> handleNumberInput(text)]))
          /\ discountSettings' = [discountSettings EXCEPT !.value = handleNumberInput(text)]
    /\ UNCHANGED <<people, additionalFees, nextId>>

\* Minimum Spend input
setDiscountMinimumSpend ==
    /\ \E text \in InputTexts :
          /\ edit(call("setDiscountSettings", 0, 0, 0,
                       [minimumSpend |-> handleNumberInput(text)]))
          /\ discountSettings' =
                [discountSettings EXCEPT !.minimumSpend = handleNumberInput(text)]
    /\ UNCHANGED <<people, additionalFees, nextId>>

\* a pasted run of 9s, long enough for parseInt to overflow
LongDigits == [i \in 1..OverflowDigits |-> "9"]

\* Max Discount input; the typed text is kept with the call
setMaxDiscountAmount ==
    /\ \E text \in InputTexts \cup {LongDigits} :
          /\ edit(call("setDiscountSettings", 0, 0, 0,
                       [maxDiscountAmount |-> numberInput(text), text |-> text]))
          /\ discountSettings' =
                [discountSettings EXCEPT !.maxDiscountAmount = numberInput(text)]
    /\ UNCHANGED <<people, additionalFees, nextId>>

DefaultSettings ==
    [type |-> "percentage", value |-> 0, minimumSpend |-> 0, maxDiscountAmount |-> Infinity]

\* compressState([], default discountSettings, [])
defaultState == compressStateOf(<< >>, DefaultSettings, << >>).value

\* the URL effect: nothing on its first run; later the "state" parameter is
\* deleted when the state compresses to the token of the default state and
\* set to the token otherwise; a throw of compressState ends the component
urlEffect ==
    /\ effectPc \in {"first", "firstLoaded", "url"}
    /\ IF isInitialMount
       THEN /\ isInitialMount' = FALSE
            /\ urlState' = urlState
            /\ effectPc' = IF effectPc = "firstLoaded" THEN "url" ELSE "idle"
       ELSE /\ isInitialMount' = isInitialMount
            /\ \E compressed \in {compressStateOf(people, discountSettings, additionalFees)} :
                  /\ urlState' = IF ~compressed.ok THEN urlState
                                 ELSE IF compressed.value = defaultState THEN NoParam
                                 ELSE Param(compressed.value)
                  /\ effectPc' = IF compressed.ok THEN "idle" ELSE "crashed"
    /\ UNCHANGED <<state, calcVars, uiVars, converterVars, codecVars, initialState>>

NextUI ==
    \/ urlEffect
    \/ addPerson
    \/ updatePerson
    \/ addItem
    \/ updateItemName
    \/ updateItemQuantity
    \/ updateItemPrice
    \/ removeItem
    \/ removePerson
    \/ addAdditionalFee
    \/ updateAdditionalFeeName
    \/ updateAdditionalFeeAmount
    \/ removeAdditionalFee
    \/ setDiscountType
    \/ setDiscountValue
    \/ setDiscountMinimumSpend
    \/ setMaxDiscountAmount

SpecUI == InitUI /\ [][NextUI]_vars

----------------------------------------------------------------------------
\* The component from its mount: the effect that loads initialState, the
\* first run of the URL effect, then the editing handlers.

\* texts carried by the initialState tokens
PageTokenTexts == {
    \* {"p":[{"n":"A","i":[{"n":"B","q":2,"p":5}]}],"d":{"t":"flat","v":6,"m":5,"x":2},"f":[{"n":"S","a":3}]}
    <<123, 34, 112, 34, 58, 91, 123, 34, 110, 34, 58, 34, 65, 34, 44, 34, 105, 34, 58, 91, 123, 34, 110, 34, 58, 34, 66, 34, 44, 34, 113, 34, 58, 50, 44, 34, 112, 34, 58, 53, 125, 93, 125, 93, 44, 34, 100, 34, 58, 123, 34, 116, 34, 58, 34, 102, 108, 97, 116, 34, 44, 34, 118, 34, 58, 54, 44, 34, 109, 34, 58, 53, 44, 34, 120, 34, 58, 50, 125, 44, 34, 102, 34, 58, 91, 123, 34, 110, 34, 58, 34, 83, 34, 44, 34, 97, 34, 58, 51, 125, 93, 125>>,
    \* {"p":[{"n":"A","i":[]}],"d":{"t":"percentage","v":8,"m":0,"x":-1},"f":[]}
    <<123, 34, 112, 34, 58, 91, 123, 34, 110, 34, 58, 34, 65, 34, 44, 34, 105, 34, 58, 91, 93, 125, 93, 44, 34, 100, 34, 58, 123, 34, 116, 34, 58, 34, 112, 101, 114, 99, 101, 110, 116, 97, 103, 101, 34, 44, 34, 118, 34, 58, 56, 44, 34, 109, 34, 58, 48, 44, 34, 120, 34, 58, 45, 49, 125, 44, 34, 102, 34, 58, 91, 93, 125>>,
    \* {"p":[{"n":"\u20ac","i":[]}],"d":{"t":"percentage","v":0,"m":0,"x":-1},"f":[]}
    <<123, 34, 112, 34, 58, 91, 123, 34, 110, 34, 58, 34, 92, 117, 50, 48, 97, 99, 34, 44, 34, 105, 34, 58, 91, 93, 125, 93, 44, 34, 100, 34, 58, 123, 34, 116, 34, 58, 34, 112, 101, 114, 99, 101, 110, 116, 97, 103, 101, 34, 44, 34, 118, 34, 58, 48, 44, 34, 109, 34, 58, 48, 44, 34, 120, 34, 58, 45, 49, 125, 44, 34, 102, 34, 58, 91, 93, 125>>,
    \* {}
    <<123, 125>>,
    \* {"p":[],"d":{"t":"percentage","v":0,"m":0,"x":-1},"f":[]}
    <<123, 34, 112, 34, 58, 91, 93, 44, 34, 100, 34, 58, 123, 34, 116, 34, 58, 34, 112, 101, 114, 99, 101, 110, 116, 97, 103, 101, 34, 44, 34, 118, 34, 58, 48, 44, 34, 109, 34, 58, 48, 44, 34, 120, 34, 58, 45, 49, 125, 44, 34, 102, 34, 58, 91, 93, 125>>
}

\* no initialState, a text that is no base64, and the encoded texts
PageTokens ==
    { << >>, <<33, 33, 33>> } \cup { btoa(text).value : text \in PageTokenTexts }

\* the values setPeople, setDiscountSettings and setAdditionalFees receive
\* from expandState, for tokens whose fields have the types of CompactState
loadedState(result) ==
    [people |-> [i \in DOMAIN result.people |->
        [id |-> result.people[i].id,
         name |-> result.people[i].name.v,
         items |-> [k \in DOMAIN result.people[i].items |->
             [id |-> result.people[i].items[k].id,
              name |-> result.people[i].items[k].name.v,
              quantity |-> result.people[i].items[k].quantity.v.n,
              price |-> result.people[i].items[k].price.v.n]]]],
     discountSettings |->
        [type |-> IF result.discountSettings.type.v = typeText("flat")
                  THEN "flat" ELSE "percentage",
         value |-> result.discountSettings.value.v.n,
         minimumSpend |-> result.discountSettings.minimumSpend.v.n,
         maxDiscountAmount |-> result.discountSettings.maxDiscountAmount.v],
     additionalFees |-> [j \in DOMAIN result.additionalFees |->
        [id |-> result.additionalFees[j].id,
         name |-> result.additionalFees[j].name.v,
         amount |-> result.additionalFees[j].amount.v.n]]]

InitPage ==
    /\ people = << >>
    /\ discountSettings = DefaultSettings
    /\ additionalFees = << >>
    /\ InitLocals
    /\ InitRenderVars
    /\ InitUIVars
    /\ InitConverterVars
    /\ InitCodecVars
    /\ initialState \in PageTokens
    /\ urlState \in {NoParam} \cup
                    (IF initialState = << >> THEN {} ELSE {Param(initialState)})
    /\ isInitialMount = TRUE
    /\ effectPc = "load"

\* the effect of the mount that loads initialState
loadInitialState ==
    /\ effectPc = "load"
    /\ IF initialState # << >>
       THEN \E result \in {expandStateOf(initialState, nextId)} :
               /\ people' = loadedState(result).people
               /\ discountSettings' = loadedState(result).discountSettings
               /\ additionalFees' = loadedState(result).additionalFees
               /\ nextId' = nextId + idsIn(result)
               /\ effectPc' = "firstLoaded"
       ELSE /\ UNCHANGED <<state, nextId>>
            /\ effectPc' = "first"
    /\ UNCHANGED <<calcVars, edits, lastEdit, converterVars, codecVars,
                   initialState, urlState, isInitialMount>>

NextPage ==
    \/ loadInitialState
    \/ NextUI

SpecPage == InitPage /\ [][NextPage]_vars

\* ------------------------------------------------------------------------
\* compressState and expandState on states and on given tokens
\* ------------------------------------------------------------------------
\* names: empty, A", e acute, euro sign
CodecNames == { << >>, <<65, 34>>, <<233>>, <<8364>> }
CodecItemLists == { << >>, <<[name |-> <<66>>, quantity |-> 2, price |-> 5]>> }
CodecPeopleLists ==
    UNION { [1..k -> CodecNames \X CodecItemLists] : k \in 0..MaxPeople }
CodecDiscountSettings ==
    { [type |-> "percentage", value |-> 0, minimumSpend |-> 0, maxDiscountAmount |-> Infinity],
      [type |-> "flat", value |-> 6, minimumSpend |-> 5, maxDiscountAmount |-> FromInt(2)] }
CodecFeeLists == { << >>, <<[name |-> <<83>>, amount |-> 3]>> }

\* texts carried by the given tokens
TokenTexts == {
    \* {
    <<123>>,
    \* abc
    <<97, 98, 99>>,
    \* null
    <<110, 117, 108, 108>>,
    \* 5
    <<53>>,
    \* "x"
    <<34, 120, 34>>,
    \* []
    <<91, 93>>,
    \* {}
    <<123, 125>>,
    \* {"p":[]}
    <<123, 34, 112, 34, 58, 91, 93, 125>>,
    \* {"p":5,"d":{"t":"flat","v":1,"m":0,"x":-1},"f":[]}
    <<123, 34, 112, 34, 58, 53, 44, 34, 100, 34, 58, 123, 34, 116, 34, 58, 34, 102, 108, 97, 116, 34, 44, 34, 118, 34, 58, 49, 44, 34, 109, 34, 58, 48, 44, 34, 120, 34, 58, 45, 49, 125, 44, 34, 102, 34, 58, 91, 93, 125>>,
    \* {"p":[],"d":{"t":"flat","v":1,"m":0,"x":-1}}
    <<123, 34, 112, 34, 58, 91, 93, 44, 34, 100, 34, 58, 123, 34, 116, 34, 58, 34, 102, 108, 97, 116, 34, 44, 34, 118, 34, 58, 49, 44, 34, 109, 34, 58, 48, 44, 34, 120, 34, 58, 45, 49, 125, 125>>,
    \* {"p":[],"d":null,"f":[]}
    <<123, 34, 112, 34, 58, 91, 93, 44, 34, 100, 34, 58, 110, 117, 108, 108, 44, 34, 102, 34, 58, 91, 93, 125>>,
    \* {"p":[null],"d":{"t":"flat","v":1,"m":0,"x":-1},"f":[]}
    <<123, 34, 112, 34, 58, 91, 110, 117, 108, 108, 93, 44, 34, 100, 34, 58, 123, 34, 116, 34, 58, 34, 102, 108, 97, 116, 34, 44, 34, 118, 34, 58, 49, 44, 34, 109, 34, 58, 48, 44, 34, 120, 34, 58, 45, 49, 125, 44, 34, 102, 34, 58, 91, 93, 125>>,
    \* {"p":[{}],"d":{"t":"flat","v":1,"m":0,"x":-1},"f":[]}
    <<123, 34, 112, 34, 58, 91, 123, 125, 93, 44, 34, 100, 34, 58, 123, 34, 116, 34, 58, 34, 102, 108, 97, 116, 34, 44, 34, 118, 34, 58, 49, 44, 34, 109, 34, 58, 48, 44, 34, 120, 34, 58, 45, 49, 125, 44, 34, 102, 34, 58, 91, 93, 125>>,
    \* {"p":[{"n":"A","i":[null]}],"d":{"t":"flat","v":1,"m":0,"x":-1},"f":[]}
    <<123, 34, 112, 34, 58, 91, 123, 34, 110, 34, 58, 34, 65, 34, 44, 34, 105, 34, 58, 91, 110, 117, 108, 108, 93, 125, 93, 44, 34, 100, 34, 58, 123, 34, 116, 34, 58, 34, 102, 108, 97, 116, 34, 44, 34, 118, 34, 58, 49, 44, 34, 109, 34, 58, 48, 44, 34, 120, 34, 58, 45, 49, 125, 44, 34, 102, 34, 58, 91, 93, 125>>,
    \* {"p":[],"d":{"t":"flat","v":1,"m":0,"x":-1},"f":{}}
    <<123, 34, 112, 34, 58, 91, 93, 44, 34, 100, 34, 58, 123, 34, 116, 34, 58, 34, 102, 108, 97, 116, 34, 44, 34, 118, 34, 58, 49, 44, 34, 109, 34, 58, 48, 44, 34, 120, 34, 58, 45, 49, 125, 44, 34, 102, 34, 58, 123, 125, 125>>,
    \* {"p":[],"d":{},"f":[]}
    <<123, 34, 112, 34, 58, 91, 93, 44, 34, 100, 34, 58, 123, 125, 44, 34, 102, 34, 58, 91, 93, 125>>,
    \* {"p":[],"d":5,"f":[]}
    <<123, 34, 112, 34, 58, 91, 93, 44, 34, 100, 34, 58, 53, 44, 34, 102, 34, 58, 91, 93, 125>>,
    \* {"p":[{"i":[{}]}],"d":{"t":"flat","v":1,"m":0,"x":-1},"f":[{}]}
    <<123, 34, 112, 34, 58, 91, 123, 34, 105, 34, 58, 91, 123, 125, 93, 125, 93, 44, 34, 100, 34, 58, 123, 34, 116, 34, 58, 34, 102, 108, 97, 116, 34, 44, 34, 118, 34, 58, 49, 44, 34, 109, 34, 58, 48, 44, 34, 120, 34, 58, 45, 49, 125, 44, 34, 102, 34, 58, 91, 123, 125, 93, 125>>,
    \* {"p":[{"n":"A","i":[{"n":"B","q":2,"p":5}]}],"d":{"t":"flat","v":1,"m":0,"x":-1},"f":[{"n":"S","a":3}]}
    <<123, 34, 112, 34, 58, 91, 123, 34, 110, 34, 58, 34, 65, 34, 44, 34, 105, 34, 58, 91, 123, 34, 110, 34, 58, 34, 66, 34, 44, 34, 113, 34, 58, 50, 44, 34, 112, 34, 58, 53, 125, 93, 125, 93, 44, 34, 100, 34, 58, 123, 34, 116, 34, 58, 34, 102, 108, 97, 116, 34, 44, 34, 118, 34, 58, 49, 44, 34, 109, 34, 58, 48, 44, 34, 120, 34, 58, 45, 49, 125, 44, 34, 102, 34, 58, 91, 123, 34, 110, 34, 58, 34, 83, 34, 44, 34, 97, 34, 58, 51, 125, 93, 125>> }

\* tokens handed to expandState: texts that are no base64 ("!!!", "e30" cut
\* to "e"), and the base64 of the texts above
GivenTokens == { <<33, 33, 33>>, <<101>> } \cup { btoa(text).value : text \in TokenTexts }

InitCodec ==
    /\ InitLocals
    /\ InitRenderVars
    /\ InitUIVars
    /\ InitConverterVars
    /\ InitPageVars
    /\ expanded = DefaultExpanded
    /\ \/ /\ codecPc = "state"
          /\ token = << >>
          /\ \E pl \in CodecPeopleLists :
                people = [i \in DOMAIN pl |->
                             [id |-> i, name |-> pl[i][1],
                              items |-> [k \in DOMAIN pl[i][2] |->
                                            [id |-> <<i, k>>,
                                             name |-> pl[i][2][k].name,
                                             quantity |-> pl[i][2][k].quantity,
                                             price |-> pl[i][2][k].price]]]]
          /\ discountSettings \in CodecDiscountSettings
          /\ \E fl \in CodecFeeLists :
                additionalFees = [j \in DOMAIN fl |->
                                     [id |-> j, name |-> fl[j].name, amount |-> fl[j].amount]]
       \/ /\ codecPc = "token"
          /\ token \in GivenTokens
          /\ people = << >>
          /\ discountSettings =
                [type |-> "percentage", value |-> 0, minimumSpend |-> 0,
                 maxDiscountAmount |-> Infinity]
          /\ additionalFees = << >>

\* compressState(people, discountSettings, additionalFees); "thrown" when
\* btoa throws
compressState ==
    /\ codecPc = "state"
    /\ LET compressed == compressStateOf(people, discountSettings, additionalFees)
       IN  /\ token' = IF compressed.ok THEN compressed.value ELSE token
           /\ codecPc' = IF compressed.ok THEN "compressed" ELSE "thrown"
    /\ UNCHANGED <<state, calcVars, uiVars, converterVars, pageVars, expanded>>

\* expandState(token), of a token compressState made or of a given token
expandState ==
    /\ codecPc \in {"compressed", "token"}
    /\ \E result \in {expandStateOf(token, nextId)} :
          /\ expanded' = result
          /\ nextId' = nextId + idsIn(result)
    /\ codecPc' = IF codecPc = "compressed" THEN "restored" ELSE "expanded"
    /\ UNCHANGED <<state, calcVars, edits, lastEdit, converterVars, pageVars, token>>

NextCodec ==
    \/ compressState
    \/ expandState

SpecCodec == InitCodec /\ [][NextCodec]_vars

\* ------------------------------------------------------------------------
\* The base64 converter
\* ------------------------------------------------------------------------
\* characters typed into the Raw Text field: a, e acute, euro sign
RawChars == {97, 233, 8364}
\* characters typed into the Base64 field: Q R Y = space !
Base64Chars == {81, 82, 89, 61, 32, 33}

\* the field's text after one keystroke: a character typed at the end, the
\* last character deleted, or the field cleared
typed(text, chars) ==
    { Append(text, c) : c \in IF Len(text) < MaxTextLen THEN chars ELSE {} }
    \cup { SubSeq(text, 1, Len(text) - 1) : n \in IF text = << >> THEN {} ELSE {1} }
    \cup { << >> }

InitConverter ==
    /\ people = << >>
    /\ discountSettings =
          [type |-> "percentage", value |-> 0, minimumSpend |-> 0,
           maxDiscountAmount |-> Infinity]
    /\ additionalFees = << >>
    /\ InitLocals
    /\ InitRenderVars
    /\ InitUIVars
    /\ InitConverterVars
    /\ InitCodecVars
    /\ InitPageVars

handleRawTextChange ==
    /\ \E text \in typed(rawText, RawChars) :
          LET encoded == btoa(text)
          IN  /\ rawText' = text
              /\ base64Text' = IF encoded.ok THEN encoded.value ELSE InvalidInputMessage
              /\ lastEvent' = [handler |-> "raw", text |-> text, ok |-> encoded.ok]
    /\ UNCHANGED <<state, calcVars, uiVars, codecVars, pageVars>>

handleBase64TextChange ==
    /\ \E text \in typed(base64Text, Base64Chars) :
          LET decoded == atob(text)
          IN  /\ base64Text' = text
              /\ rawText' = IF decoded.ok THEN decoded.value ELSE InvalidBase64Message
              /\ lastEvent' = [handler |-> "base64", text |-> text, ok |-> decoded.ok]
    /\ UNCHANGED <<state, calcVars, uiVars, codecVars, pageVars>>

NextConverter ==
    \/ handleRawTextChange
    \/ handleBase64TextChange

SpecConverter == InitConverter /\ [][NextConverter]_vars

\* ------------------------------------------------------------------------
\* Vocabulary of the properties
\* ------------------------------------------------------------------------
Persons == DOMAIN people
subtotalAt(i) == subtotalOf(people[i])
allocatedAt(i) == amountOf(discountedAmounts, people[i].id)
Positive == {i \in Persons : RLt(Zero, subtotalAt(i))}
Capped(i) == allocatedAt(i) = subtotalAt(i)

RECURSIVE SumOver(_, _)
SumOver(f, S) ==
    IF S = {} THEN Zero
    ELSE LET x == CHOOSE y \in S : TRUE
         IN  RAdd(f[x], SumOver(f, S \ {x}))

\* sum of the entries of the returned map
sumAllocated == SumOver(discountedAmounts, DOMAIN discountedAmounts)
sumSubtotals == SumOver([i \in Persons |-> subtotalAt(i)], Persons)
sumFees == SumOver([i \in DOMAIN additionalFees |-> FromInt(additionalFees[i].amount)],
                   DOMAIN additionalFees)
distinctIds == \A i, j \in Persons : people[i].id = people[j].id => i = j

\* ------------------------------------------------------------------------
\* C1: in the map returned by calculateDiscountedAmounts every participant's
\* allocated discount is at most that participant's subtotal, and the sum of
\* all allocated discounts is at most totalDiscount.
\* ------------------------------------------------------------------------
C1_AllocationWithinBounds ==
    pc = "done" =>
        /\ \A i \in Persons : RLe(allocatedAt(i), subtotalAt(i))
        /\ \A id \in DOMAIN discountedAmounts : \E i \in Persons : people[i].id = id
        /\ RLe(sumAllocated, totalDiscount)

C1_Witness ==
    /\ pc = "done"
    /\ distinctIds
    /\ \E i, j \in Positive :
          /\ Capped(i)
          /\ RLt(allocatedAt(j), subtotalAt(j))
          /\ RLt(allocatedAt(i), allocatedAt(j))
    /\ sumAllocated = totalDiscount

\* ------------------------------------------------------------------------
\* C2: no discount is left unused while capacity remains: on return the sum
\* of the allocations is min(totalDiscount, sum of subtotals), i.e. it equals
\* totalDiscount or every participant with subtotal > 0 is allocated exactly
\* its subtotal; what a capped participant could not absorb went to the
\* still-eligible ones in later rounds (subtotals 1 and 10 with discount 6
\* give 1 and 5).
\* ------------------------------------------------------------------------
C2_NoDiscountLeftUnused ==
    pc = "done" =>
        /\ sumAllocated = MathMin(totalDiscount, sumSubtotals)
        /\ \/ sumAllocated = totalDiscount
           \/ \A i \in Positive : Capped(i)
        /\ ( /\ Len(people) = 2
             /\ subtotalAt(1) = FromInt(1)
             /\ subtotalAt(2) = FromInt(10)
             /\ totalDiscount = FromInt(6) )
           => (allocatedAt(1) = FromInt(1) /\ allocatedAt(2) = FromInt(5))

C2_Witness ==
    /\ pc = "done"
    /\ Len(people) = 2
    /\ subtotalAt(1) = FromInt(1)
    /\ subtotalAt(2) = FromInt(10)
    /\ totalDiscount = FromInt(6)
    /\ rounds = 2
    /\ allocatedAt(2) = FromInt(5)

\* ------------------------------------------------------------------------
\* C3: every returned BillSummary has total = discountedSubtotal + sharedFees
\* and 0 <= discountedSubtotal <= subtotal.
\* ------------------------------------------------------------------------
C3_SummaryInvariant ==
    pc = "done" =>
        \A i \in DOMAIN summary :
            /\ summary[i].total = RAdd(summary[i].discountedSubtotal, summary[i].sharedFees)
            /\ RLe(Zero, summary[i].discountedSubtotal)
            /\ RLe(summary[i].discountedSubtotal, summary[i].subtotal)

C3_Witness ==
    /\ pc = "done"
    /\ \E i \in DOMAIN summary :
          /\ RLt(Zero, summary[i].discountedSubtotal)
          /\ RLt(summary[i].discountedSubtotal, summary[i].subtotal)
          /\ RLt(Zero, summary[i].sharedFees)
          /\ RLt(summary[i].subtotal, summary[i].total)

\* ------------------------------------------------------------------------
\* C4: with type percentage the total discount is
\* min(value/100 * sum of subtotals, maxDiscountAmount): the plain percentage
\* when the maximum is Infinity, the cap when a finite cap is below the
\* computed percentage.
\* ------------------------------------------------------------------------
percentageOfSubtotals ==
    RDiv(RMul(FromInt(discountSettings.value), sumSubtotals), FromInt(100))

C4_PercentageTotalDiscount ==
    (pc # "ready" /\ discountSettings.type = "percentage") =>
        /\ totalDiscount = MathMin(percentageOfSubtotals, discountSettings.maxDiscountAmount)
        /\ discountSettings.maxDiscountAmount = Infinity
              => totalDiscount = percentageOfSubtotals
        /\ ( /\ discountSettings.maxDiscountAmount # Infinity
             /\ RLt(discountSettings.maxDiscountAmount, percentageOfSubtotals) )
              => totalDiscount = discountSettings.maxDiscountAmount

C4_Witness ==
    /\ pc = "done"
    /\ discountSettings.type = "percentage"
    /\ discountSettings.maxDiscountAmount = FromInt(2)
    /\ RLt(FromInt(2), percentageOfSubtotals)
    /\ totalDiscount = FromInt(2)
    /\ sumAllocated = FromInt(2)

\* ------------------------------------------------------------------------
\* C5: with type flat the total discount is min(value, maxDiscountAmount),
\* whatever the participants' subtotals; with maxDiscountAmount = Infinity it
\* is exactly value.
\* ------------------------------------------------------------------------
C5_FlatTotalDiscount ==
    (pc # "ready" /\ discountSettings.type = "flat") =>
        /\ totalDiscount = MathMin(FromInt(discountSettings.value),
                                   discountSettings.maxDiscountAmount)
        /\ discountSettings.maxDiscountAmount = Infinity
              => totalDiscount = FromInt(discountSettings.value)

C5_Witness ==
    /\ pc = "done"
    /\ discountSettings.type = "flat"
    /\ discountSettings.maxDiscountAmount = Infinity
    /\ totalDiscount = FromInt(discountSettings.value)
    /\ RLt(sumSubtotals, totalDiscount)
    /\ Positive # {}

\* ------------------------------------------------------------------------
\* C6: when totalDiscount exceeds the sum of all subtotals the loop ends with
\* the eligible set empty, every participant with subtotal > 0 is allocated
\* exactly its subtotal, every discountedSubtotal of the summary is 0, the
\* discount applied is the sum of the subtotals and the rest stays
\* undistributed.
\* ------------------------------------------------------------------------
C6_DiscountExceedsSubtotals ==
    (pc = "done" /\ RLt(sumSubtotals, totalDiscount)) =>
        /\ eligiblePeople = << >>
        /\ \A i \in Positive : Capped(i)
        /\ \A i \in DOMAIN summary : summary[i].discountedSubtotal = Zero
        /\ Len(summary) = Len(people)
        /\ sumAllocated = sumSubtotals
        /\ remainingDiscount = RSub(totalDiscount, sumSubtotals)

C6_Witness ==
    /\ pc = "done"
    /\ RLt(sumSubtotals, totalDiscount)
    /\ Cardinality(Positive) >= 2
    /\ rounds >= 2
    /\ RLt(Zero, remainingDiscount)
    /\ \A i \in DOMAIN summary : summary[i].discountedSubtotal = Zero

\* ------------------------------------------------------------------------
\* C7: every round of the allocation loop either brings the remaining
\* discount to 0 or removes at least one participant from the eligible set,
\* and the number of rounds never exceeds the number of participants with
\* subtotal > 0.
\* ------------------------------------------------------------------------
C7_RoundsTerminate ==
    [][ (pc = "loop" /\ rounds' = rounds + 1) =>
            /\ \/ remainingDiscount' = Zero
               \/ Len(eligiblePeople') < Len(eligiblePeople)
            /\ rounds' <= Cardinality(Positive) ]_vars

C7_Witness ==
    /\ pc = "done"
    /\ rounds = 3
    /\ Cardinality(Positive) = 3
    /\ remainingDiscount = Zero
    /\ eligiblePeople # << >>

\* ------------------------------------------------------------------------
\* C8 as stated: two participants with positive subtotals that are both
\* allocated less than their subtotal have the same ratio of allocated
\* discount to subtotal.
\* ------------------------------------------------------------------------
C8_ProportionalToSpend ==
    pc = "done" =>
        \A i, j \in Positive :
            (RLt(allocatedAt(i), subtotalAt(i)) /\ RLt(allocatedAt(j), subtotalAt(j)))
                => RDiv(allocatedAt(i), subtotalAt(i)) = RDiv(allocatedAt(j), subtotalAt(j))

\* ------------------------------------------------------------------------
\* C8 amended: two participants with positive subtotals that are both
\* allocated less than their subtotal are allocated the same amount
\* (equal shares, not shares proportional to spend).
\* ------------------------------------------------------------------------
C8_EqualAmongUncapped ==
    pc = "done" =>
        \A i, j \in Positive :
            (RLt(allocatedAt(i), subtotalAt(i)) /\ RLt(allocatedAt(j), subtotalAt(j)))
                => allocatedAt(i) = allocatedAt(j)

C8_Witness ==
    /\ pc = "done"
    /\ rounds = 2
    /\ \E i, j \in Positive :
          /\ RLt(subtotalAt(i), subtotalAt(j))
          /\ RLt(allocatedAt(i), subtotalAt(i))
          /\ RLt(allocatedAt(j), subtotalAt(j))
          /\ allocatedAt(i) = allocatedAt(j)
          /\ RLt(Zero, allocatedAt(i))

\* ------------------------------------------------------------------------
\* C9: if totalDiscount divided by the number of participants with
\* subtotal > 0 exceeds none of their subtotals, the loop runs at most one
\* round (exactly one when totalDiscount > 0) and each of them is allocated
\* exactly totalDiscount / (their number).
\* ------------------------------------------------------------------------
equalSplit == RDiv(totalDiscount, FromInt(Cardinality(Positive)))

C9_SingleRoundEqualSplit ==
    ( /\ pc = "done"
      /\ Positive # {}
      /\ \A i \in Positive : RLe(equalSplit, subtotalAt(i)) )
    => /\ rounds <= 1
       /\ RLt(Zero, totalDiscount) => rounds = 1
       /\ \A i \in Positive : allocatedAt(i) = equalSplit

C9_Witness ==
    /\ pc = "done"
    /\ Len(people) = 2
    /\ subtotalAt(1) = FromInt(10)
    /\ subtotalAt(2) = FromInt(10)
    /\ discountSettings.type = "flat"
    /\ totalDiscount = FromInt(8)
    /\ rounds = 1
    /\ allocatedAt(1) = FromInt(4)
    /\ allocatedAt(2) = FromInt(4)
    /\ summary[1].discountedSubtotal = FromInt(6)
    /\ summary[2].discountedSubtotal = FromInt(6)

\* ------------------------------------------------------------------------
\* C10: in every summary of one calculateBillSummary call sharedFees is
\* (sum of all fee amounts) / max(1, number of participants): one value for
\* all participants, whatever their items and the discount settings.
\* ------------------------------------------------------------------------
feeShare == RDiv(sumFees, FromInt(IF Len(people) > 1 THEN Len(people) ELSE 1))

C10_SharedFeesEqualSplit ==
    /\ pc # "ready" => sharedFeesPerPerson = feeShare
    /\ pc = "done" => \A i \in DOMAIN summary : summary[i].sharedFees = feeShare

C10_Witness ==
    /\ pc = "done"
    /\ Len(people) = 3
    /\ Len(additionalFees) = 2
    /\ summary[1].sharedFees = Rat(4, 3)
    /\ summary[3].sharedFees = Rat(4, 3)
    /\ summary[1].subtotal # summary[3].subtotal
    /\ summary[1].discountedSubtotal # summary[1].subtotal

\* ------------------------------------------------------------------------
\* C11: with zero participants calculateBillSummary returns an empty array
\* and divides the fees by 1, not by 0; calculateDiscountedAmounts with zero
\* participants or with totalDiscount = 0 returns an empty map without
\* executing a round of the loop.
\* ------------------------------------------------------------------------
C11_EmptyInputs ==
    /\ (pc # "ready" /\ Len(people) = 0) =>
          /\ sharedFeesPerPerson = sumFees
          /\ sharedFeesPerPerson.d # 0
    /\ (pc = "done" /\ Len(people) = 0) => summary = << >>
    /\ (pc = "done" /\ (Len(people) = 0 \/ totalDiscount = Zero)) =>
          /\ discountedAmounts = << >>
          /\ rounds = 0

C11_Witness ==
    /\ pc = "done"
    /\ Len(people) = 0
    /\ RLt(Zero, sumFees)
    /\ RLt(Zero, totalDiscount)
    /\ summary = << >>
    /\ rounds = 0

\* ------------------------------------------------------------------------
\* C12: calculateBillSummary returns one summary per participant in input
\* order: the i-th summary carries the i-th participant's id and the sum of
\* quantity * price over that participant's items.
\* ------------------------------------------------------------------------
lineValues(i) ==
    [k \in DOMAIN people[i].items |->
        FromInt(people[i].items[k].quantity * people[i].items[k].price)]

C12_OneSummaryPerParticipant ==
    pc = "done" =>
        /\ Len(summary) = Len(people)
        /\ \A i \in Persons :
              /\ summary[i].personId = people[i].id
              /\ summary[i].subtotal = SumOver(lineValues(i), DOMAIN people[i].items)

C12_Witness ==
    /\ pc = "done"
    /\ Len(summary) = 3
    /\ distinctIds
    /\ Len(people[2].items) = 2
    /\ summary[1].subtotal = FromInt(10)
    /\ summary[2].subtotal = FromInt(3)
    /\ summary[3].subtotal = FromInt(1)

\* ------------------------------------------------------------------------
\* C17: the aggregate of calculateGrandTotal is the field-wise sum of the
\* summaries, with totalAfterDiscount = subtotal - totalDiscount,
\* grandTotal = totalAfterDiscount + totalSharedFees and, with at least one
\* participant, totalSharedFees = the sum of all fee amounts.
\* ------------------------------------------------------------------------
summaryField(f) == SumOver(f, DOMAIN summary)

C17_GrandTotalConsistent ==
    pc = "total" =>
        /\ grandTotal.subtotal = summaryField([i \in DOMAIN summary |-> summary[i].subtotal])
        /\ grandTotal.subtotal = sumSubtotals
        /\ grandTotal.totalAfterDiscount =
              summaryField([i \in DOMAIN summary |-> summary[i].discountedSubtotal])
        /\ grandTotal.totalSharedFees =
              summaryField([i \in DOMAIN summary |-> summary[i].sharedFees])
        /\ grandTotal.grandTotal = summaryField([i \in DOMAIN summary |-> summary[i].total])
        /\ grandTotal.totalDiscount = sumAllocated
        /\ grandTotal.totalAfterDiscount =
              RSub(grandTotal.subtotal, grandTotal.totalDiscount)
        /\ grandTotal.grandTotal =
              RAdd(grandTotal.totalAfterDiscount, grandTotal.totalSharedFees)
        /\ Len(people) >= 1 => grandTotal.totalSharedFees = sumFees

C17_Witness ==
    /\ pc = "total"
    /\ Len(people) = 3
    /\ grandTotal.totalSharedFees = FromInt(4)
    /\ RLt(Zero, grandTotal.totalDiscount)
    /\ RLt(grandTotal.totalDiscount, totalDiscount)
    /\ RLt(grandTotal.totalAfterDiscount, grandTotal.grandTotal)

\* ------------------------------------------------------------------------
\* C19: an evaluation of calculateBillSummary on the same participants,
\* discount settings and fees as the evaluation before it returns the same
\* summary array (same order, same field values).
\* ------------------------------------------------------------------------
sameInputsAsBefore ==
    /\ previous # << >>
    /\ previous[1].people = people
    /\ previous[1].discountSettings = discountSettings
    /\ previous[1].additionalFees = additionalFees

onlyMinimumSpendChanged ==
    /\ previous # << >>
    /\ previous[1].people = people
    /\ previous[1].additionalFees = additionalFees
    /\ previous[1].discountSettings.minimumSpend # discountSettings.minimumSpend
    /\ previous[1].discountSettings.type = discountSettings.type
    /\ previous[1].discountSettings.value = discountSettings.value
    /\ previous[1].discountSettings.maxDiscountAmount = discountSettings.maxDiscountAmount

C20_MinimumSpendNotEnforced ==
    (pc \in {"done", "total"} /\ onlyMinimumSpendChanged) => summary = previous[1].summary

C20_Witness ==
    /\ pc = "done"
    /\ onlyMinimumSpendChanged
    /\ discountSettings.minimumSpend = 5
    /\ \E i \in DOMAIN summary :
          /\ RLt(Zero, summary[i].subtotal)
          /\ RLt(summary[i].subtotal, FromInt(discountSettings.minimumSpend))
          /\ RLt(summary[i].discountedSubtotal, summary[i].subtotal)
    /\ summary = previous[1].summary

C15_EncodeDecodeRoundTrip ==
    (lastEvent.handler = "base64" /\ lastEvent.ok) =>
        /\ btoa(rawText).ok
        /\ btoa(rawText).value = base64Text

\* x is base64 in canonical form: no whitespace, length a multiple of 4,
\* "=" only as padding at the end, unused bits of the last character zero
Canonical(x) ==
    LET n == Len(x)
    IN  /\ n % 4 = 0
        /\ \A i \in 1..(n - 2) : isAlphabet(x[i])
        /\ n > 0 =>
              \/ isAlphabet(x[n - 1]) /\ isAlphabet(x[n])
              \/ isAlphabet(x[n - 1]) /\ x[n] = 61 /\ sextetOf(x[n - 1]) % 4 = 0
              \/ x[n - 1] = 61 /\ x[n] = 61 /\ sextetOf(x[n - 2]) % 16 = 0

\* ------------------------------------------------------------------------
\* C15 amended: for every base64 text x in canonical form entered in the
\* Base64 field, handleBase64TextChange(x) succeeds and the Base64 field
\* equals the base64 encoding of the Raw Text field.
\* ------------------------------------------------------------------------
C15_CanonicalRoundTrip ==
    (lastEvent.handler = "base64" /\ Canonical(lastEvent.text)) =>
        /\ lastEvent.ok
        /\ base64Text = lastEvent.text
        /\ btoa(rawText).ok
        /\ btoa(rawText).value = base64Text

C15_Witness ==
    /\ lastEvent.handler = "base64"
    /\ lastEvent.ok
    /\ base64Text = <<89, 81, 61, 61>>
    /\ Canonical(base64Text)
    /\ rawText = <<97>>

\* ------------------------------------------------------------------------
\* C16: handleBase64TextChange on a text that is no base64 keeps the typed
\* text in the Base64 field and puts "Invalid base64 string" in the Raw Text
\* field; handleRawTextChange on a text that cannot be encoded keeps the
\* typed text and puts "Invalid input for base64 encoding" in the Base64
\* field; neither handler lets the error escape.
\* ------------------------------------------------------------------------
\* what atob accepts: after whitespace is dropped, base64 characters only,
\* optionally closed by "=" or "==" to a length that is a multiple of 4, and
\* never 4k + 1 characters
atobAccepts(text) ==
    LET s == SelectSeq(text, LAMBDA c : ~isWhitespace(c))
        n == Len(s)
        allAlphabet(m) == \A i \in 1..m : isAlphabet(s[i])
    IN  \/ allAlphabet(n) /\ n % 4 # 1
        \/ n % 4 = 0 /\ n > 0 /\ s[n] = 61 /\ allAlphabet(n - 1)
        \/ n % 4 = 0 /\ n > 0 /\ s[n] = 61 /\ s[n - 1] = 61 /\ allAlphabet(n - 2)

C16_InvalidInputReported ==
    /\ (lastEvent.handler = "base64" /\ ~atobAccepts(lastEvent.text)) =>
          /\ ~lastEvent.ok
          /\ base64Text = lastEvent.text
          /\ rawText = InvalidBase64Message
    /\ (lastEvent.handler = "raw" /\ \E i \in DOMAIN lastEvent.text : lastEvent.text[i] > 255) =>
          /\ ~lastEvent.ok
          /\ rawText = lastEvent.text
          /\ base64Text = InvalidInputMessage
    /\ (lastEvent.handler = "base64" /\ atobAccepts(lastEvent.text)) => lastEvent.ok
    /\ (lastEvent.handler = "raw" /\ \A i \in DOMAIN lastEvent.text : lastEvent.text[i] <= 255)
          => lastEvent.ok

C16_Witness ==
    /\ lastEvent.handler = "base64"
    /\ lastEvent.text = <<89, 81, 33>>
    /\ base64Text = <<89, 81, 33>>
    /\ rawText = InvalidBase64Message

\* the JavaScript values of a state as expandState returns them
expandedValuesOf(ps, ds, fees) ==
    [people |-> [i \in DOMAIN ps |->
        [name |-> JSString(ps[i].name),
         items |-> [k \in DOMAIN ps[i].items |->
             [name |-> JSString(ps[i].items[k].name),
              quantity |-> JSNumber(FromInt(ps[i].items[k].quantity)),
              price |-> JSNumber(FromInt(ps[i].items[k].price))]]]],
     discountSettings |->
        [type |-> JSString(typeText(ds.type)),
         value |-> JSNumber(FromInt(ds.value)),
         minimumSpend |-> JSNumber(FromInt(ds.minimumSpend)),
         maxDiscountAmount |-> JSNumber(ds.maxDiscountAmount)],
     additionalFees |-> [j \in DOMAIN fees |->
        [name |-> JSString(fees[j].name), amount |-> JSNumber(FromInt(fees[j].amount))]]]

\* a state without its ids
withoutIds(result) ==
    [people |-> [i \in DOMAIN result.people |->
        [name |-> result.people[i].name,
         items |-> [k \in DOMAIN result.people[i].items |->
             [name |-> result.people[i].items[k].name,
              quantity |-> result.people[i].items[k].quantity,
              price |-> result.people[i].items[k].price]]]],
     discountSettings |-> result.discountSettings,
     additionalFees |-> [j \in DOMAIN result.additionalFees |->
        [name |-> result.additionalFees[j].name, amount |-> result.additionalFees[j].amount]]]

\* ------------------------------------------------------------------------
\* C13: for every state with non-negative numeric values,
\* expandState(compressState(state)) exists and has the same participants,
\* names, items, discount settings (an Infinity cap restored) and fees in the
\* same order; only ids may differ.
\* ------------------------------------------------------------------------
C13_RoundTrip ==
    /\ codecPc # "thrown"
    /\ codecPc = "restored" =>
          withoutIds(expanded) = expandedValuesOf(people, discountSettings, additionalFees)

\* the value has the shape of a CompactState
hasExpectedStructure(value) ==
    LET p == get(value, Key.p)
        d == get(value, Key.d)
        f == get(value, Key.f)
        isItem(item) ==
            /\ item.t = "object"
            /\ get(item, Key.n).t = "string"
            /\ get(item, Key.q).t = "number"
            /\ get(item, Key.p).t = "number"
        isPerson(person) ==
            /\ person.t = "object"
            /\ get(person, Key.n).t = "string"
            /\ get(person, Key.i).t = "array"
            /\ \A k \in DOMAIN get(person, Key.i).v : isItem(get(person, Key.i).v[k])
        isFee(fee) ==
            /\ fee.t = "object"
            /\ get(fee, Key.n).t = "string"
            /\ get(fee, Key.a).t = "number"
    IN  /\ value.t = "object"
        /\ p.t = "array"
        /\ \A i \in DOMAIN p.v : isPerson(p.v[i])
        /\ d.t = "object"
        /\ get(d, Key.t) \in {JSString(typeText("percentage")), JSString(typeText("flat"))}
        /\ get(d, Key.v).t = "number"
        /\ get(d, Key.m).t = "number"
        /\ get(d, Key.x).t = "number"
        /\ f.t = "array"
        /\ \A j \in DOMAIN f.v : isFee(f.v[j])

\* the token is no base64, or no JSON, or JSON of another shape
malformed(compressed) ==
    \/ ~atobAccepts(compressed)
    \/ \E parsed \in {JSONparse(atob(compressed).value)} :
          ~parsed.ok \/ ~hasExpectedStructure(parsed.value)

\* ------------------------------------------------------------------------
\* C14: for every malformed token (no base64, no JSON, or JSON without the
\* expected p / d / f structure) expandState returns the default empty
\* state: no participants, discount {percentage, 0, 0, uncapped}, no fees.
\* ------------------------------------------------------------------------
C14_FailSoft ==
    (codecPc = "expanded" /\ malformed(token)) => expanded = DefaultExpanded

\* the eligible participants, as positions in people
Eligible == {i \in Persons : \E k \in DOMAIN eligiblePeople : eligiblePeople[k].id = people[i].id}
\* participants with capacity left: subtotal - allocated discount > 0
WithCapacity == {i \in Persons : RLt(Zero, RSub(subtotalAt(i), allocatedAt(i)))}
inLoop == pc \in {"loop", "done"}

\* ------------------------------------------------------------------------
\* C21: at the start of every iteration of the allocation loop and at loop
\* exit, (sum of the allocations made so far) + remainingDiscount =
\* totalDiscount; in a round every eligible participant's applied + unused is
\* the equal share, so the next remainingDiscount is the sum over the
\* eligible participants of (share - applied).
\* ------------------------------------------------------------------------
conserved == inLoop => RAdd(sumAllocated, remainingDiscount) = totalDiscount

roundConserves ==
    (pc = "loop" /\ rounds' = rounds + 1) =>
        LET share == RDiv(remainingDiscount, FromInt(Len(eligiblePeople)))
            applied(k) == RSub(amountOf(discountedAmounts', eligiblePeople[k].id),
                               amountOf(discountedAmounts, eligiblePeople[k].id))
        IN  /\ \A k \in DOMAIN eligiblePeople :
                  RLe(Zero, applied(k)) /\ RLe(applied(k), share)
            /\ remainingDiscount' =
                  SumOver([k \in DOMAIN eligiblePeople |-> RSub(share, applied(k))],
                          DOMAIN eligiblePeople)

C21_DiscountConserved == []conserved /\ [][roundConserves]_vars

C21_Witness ==
    /\ pc = "loop"
    /\ rounds = 1
    /\ distinctIds
    /\ RLt(Zero, remainingDiscount)
    /\ RLt(Zero, sumAllocated)
    /\ Eligible # {}
    /\ RAdd(sumAllocated, remainingDiscount) = totalDiscount

\* ------------------------------------------------------------------------
\* C22: the eligible set only shrinks: it starts as exactly the participants
\* with subtotal > 0, after every round it is a subset of the set before and
\* exactly the participants with subtotal - allocated discount > 0; a
\* participant with subtotal 0 is never eligible and never has an entry in
\* the allocation map.
\* ------------------------------------------------------------------------
eligibleExact ==
    inLoop =>
        /\ Len(eligiblePeople) = Cardinality(Eligible)
        /\ \A k \in DOMAIN eligiblePeople : \E i \in Persons : people[i] = eligiblePeople[k]
        /\ rounds = 0 => Eligible = Positive
        /\ Eligible = WithCapacity
        /\ \A i \in Persons \ Positive :
              /\ i \notin Eligible
              /\ people[i].id \notin DOMAIN discountedAmounts

eligibleShrinks ==
    (pc = "loop" /\ rounds' = rounds + 1) =>
        \A k \in DOMAIN eligiblePeople' :
            \E j \in DOMAIN eligiblePeople : eligiblePeople[j] = eligiblePeople'[k]

C22_EligibleOnlyShrinks == []eligibleExact /\ [][eligibleShrinks]_vars

C22_Witness ==
    /\ pc = "loop"
    /\ rounds = 1
    /\ distinctIds
    /\ Eligible # {}
    /\ Eligible # Positive
    /\ Persons \ Positive # {}

\* ------------------------------------------------------------------------
\* C23: the final allocation is a water-filling level: there is one level L
\* with every participant of subtotal > 0 allocated min(subtotal, L); the
\* still-eligible participants hold equal accumulated allocations at the
\* start of every round, equal subtotals get equal discounts, and a larger
\* subtotal never gets a smaller discount.
\* ------------------------------------------------------------------------
C23_WaterFillingLevel ==
    /\ pc = "done" =>
          /\ \E L \in {allocatedAt(i) : i \in Positive} \cup {Zero} :
                \A i \in Positive : allocatedAt(i) = MathMin(subtotalAt(i), L)
          /\ \A i, j \in Persons :
                /\ subtotalAt(i) = subtotalAt(j) => allocatedAt(i) = allocatedAt(j)
                /\ RLt(subtotalAt(i), subtotalAt(j)) => RLe(allocatedAt(i), allocatedAt(j))
    /\ pc = "loop" => \A i, j \in Eligible : allocatedAt(i) = allocatedAt(j)

C23_Witness ==
    /\ pc = "done"
    /\ distinctIds
    /\ rounds = 2
    /\ \E i, j, k \in Positive :
          /\ Capped(i)
          /\ ~Capped(j) /\ ~Capped(k) /\ j # k
          /\ RLt(subtotalAt(j), subtotalAt(k))
          /\ allocatedAt(j) = allocatedAt(k)
          /\ RLt(allocatedAt(i), allocatedAt(j))

\* the sequence without its element at position i
without(seq, i) == SubSeq(seq, 1, i - 1) \o SubSeq(seq, i + 1, Len(seq))

\* the handler called in this step
edited(ops) == edits' = edits + 1 /\ lastEdit'.op \in ops

\* ------------------------------------------------------------------------
\* C24: each editing operation changes only its target. addItem, updateItem
\* and removeItem on person P keep the number and order of people, every
\* other person, and P's id and name; updateItem changes only the item with
\* the given id and only the supplied fields; removePerson removes exactly
\* the person with that id; no people / item operation changes
\* discountSettings or additionalFees, and no fee operation changes a
\* person.
\* ------------------------------------------------------------------------
itemOperationFrame ==
    edited({"addItem", "updateItem", "removeItem"}) =>
        /\ Len(people') = Len(people)
        /\ \A i \in DOMAIN people :
              /\ people'[i].id = people[i].id
              /\ people'[i].name = people[i].name
              /\ people[i].id # lastEdit'.personId => people'[i] = people[i]

updateItemFrame ==
    edited({"updateItem"}) =>
        \A i \in DOMAIN people :
            /\ Len(people'[i].items) = Len(people[i].items)
            /\ \A k \in DOMAIN people[i].items :
                  IF people[i].id = lastEdit'.personId
                     /\ people[i].items[k].id = lastEdit'.itemId
                  THEN \A field \in {"id", "name", "quantity", "price"} :
                          people'[i].items[k][field] =
                              IF field \in DOMAIN lastEdit'.updates
                              THEN lastEdit'.updates[field]
                              ELSE people[i].items[k][field]
                  ELSE people'[i].items[k] = people[i].items[k]

addRemoveItemFrame ==
    /\ edited({"addItem"}) =>
          \A i \in DOMAIN people :
              people[i].id = lastEdit'.personId =>
                  /\ Len(people'[i].items) = Len(people[i].items) + 1
                  /\ SubSeq(people'[i].items, 1, Len(people[i].items)) = people[i].items
    /\ edited({"removeItem"}) =>
          \A i \in DOMAIN people :
              people[i].id = lastEdit'.personId =>
                  \E k \in DOMAIN people[i].items :
                      /\ people[i].items[k].id = lastEdit'.itemId
                      /\ people'[i].items = without(people[i].items, k)

removePersonFrame ==
    edited({"removePerson"}) =>
        \E i \in DOMAIN people :
            /\ people[i].id = lastEdit'.personId
            /\ people' = without(people, i)

otherStateFrame ==
    /\ edited({"addPerson", "updatePerson", "addItem", "updateItem", "removeItem",
               "removePerson"}) =>
          /\ discountSettings' = discountSettings
          /\ additionalFees' = additionalFees
    /\ edited({"addAdditionalFee", "updateAdditionalFee", "removeAdditionalFee"}) =>
          people' = people

C24_OnlyTargetChanges ==
    [][/\ itemOperationFrame
       /\ updateItemFrame
       /\ addRemoveItemFrame
       /\ removePersonFrame
       /\ otherStateFrame]_vars

C24_Witness ==
    /\ lastEdit.op = "updateItem"
    /\ "price" \in DOMAIN lastEdit.updates
    /\ Len(people) = 2
    /\ \E i \in DOMAIN people :
          /\ people[i].id = lastEdit.personId
          /\ \E k \in DOMAIN people[i].items :
                /\ people[i].items[k].id = lastEdit.itemId
                /\ people[i].items[k].quantity = 15
                /\ people[i].items[k].price = 15

----------------------------------------------------------------------------
\* The URL and the state

\* the try block of expandState throws on the token
failsToDecode(compressed) ==
    \E decoded \in {atob(compressed)} :
       \E parsed \in {IF decoded.ok THEN JSONparse(decoded.value) ELSE Failure} :
          expandThrows(decoded, parsed)

\* the effects of the last render have run
settled == effectPc \in {"idle", "crashed"}

\* once the state was loaded or edited, the "state" parameter is absent for
\* a state with the token of the default state and is the state's token
\* otherwise
urlSynchronised ==
    (settled /\ (initialState # << >> \/ edits > 0)) =>
        \E compressed \in {compressStateOf(people, discountSettings, additionalFees)} :
           /\ compressed.ok
           /\ urlState = IF compressed.value = defaultState
                         THEN NoParam
                         ELSE Param(compressed.value)

firstRunWritesNothing ==
    (isInitialMount /\ ~isInitialMount') => urlState' = urlState

failedTokenRemoved ==
    (settled /\ edits = 0 /\ initialState # << >> /\ failsToDecode(initialState)) =>
        /\ people = << >>
        /\ discountSettings = DefaultSettings
        /\ additionalFees = << >>
        /\ urlState = NoParam

\* C25: the first run of the URL effect leaves the URL as it is; after every
\* later change of people, discountSettings or additionalFees the "state"
\* parameter is absent when the state has the token of the default state
\* and is compressState(state) otherwise; after an initialState that fails
\* to decode the state is the default one and the parameter is gone
C25_UrlSynchronised ==
    /\ [](urlSynchronised /\ failedTokenRemoved)
    /\ [][firstRunWritesNothing]_vars

----------------------------------------------------------------------------
\* The cap and the Max Discount input

\* a step of the Max Discount input's onChange
capEdited ==
    /\ edits' = edits + 1
    /\ lastEdit'.op = "setDiscountSettings"
    /\ "maxDiscountAmount" \in DOMAIN lastEdit'.updates

\* a step of the effect that loads a token
loaded == effectPc = "load" /\ effectPc' # "load" /\ initialState # << >>

isFiniteNonNegativeInteger(x) == x # Infinity /\ x.d = 1 /\ x.n >= 0

\* the token decodes and its cap is the sentinel -1
capIsSentinel(compressed) ==
    /\ ~failsToDecode(compressed)
    /\ \E parsed \in {JSONparse(atob(compressed).value)} :
          strictEquals(get(get(parsed.value, Key.d), Key.x), JSNumber(FromInt(-1)))

clearingGivesZero ==
    (capEdited /\ stripNonDigits(lastEdit'.updates.text) = << >>) =>
        discountSettings'.maxDiscountAmount = Zero

\* an Infinity cap comes from the default state or from a sentinel
infinityOnlyLoaded ==
    /\ (~loaded /\ discountSettings'.maxDiscountAmount = Infinity) =>
          discountSettings.maxDiscountAmount = Infinity
    /\ (loaded /\ discountSettings'.maxDiscountAmount = Infinity) =>
          failsToDecode(initialState) \/ capIsSentinel(initialState)

\* the same, but for the Max Discount input itself
infinityOnlyLoadedOrTyped ==
    /\ (~loaded /\ ~capEdited /\ discountSettings'.maxDiscountAmount = Infinity) =>
          discountSettings.maxDiscountAmount = Infinity
    /\ (loaded /\ discountSettings'.maxDiscountAmount = Infinity) =>
          failsToDecode(initialState) \/ capIsSentinel(initialState)

zeroCapNoDiscount ==
    discountSettings.maxDiscountAmount = Zero =>
        \A type \in {"percentage", "flat"} :
           totalDiscountOf(people, [discountSettings EXCEPT !.type = type]) = Zero

====
